---- MODULE Spec2Model ----
(***************************************************************************)
(* A model of pyssg's markdown pipeline: the inline span parser            *)
(* (src/core/text_functions.py), the block segmenter, classifier and       *)
(* block-to-node converter (src/core/markdown_functions.py) and the node   *)
(* model (src/htmlnode.py, src/textnode.py).                               *)
(*                                                                         *)
(* A Python str is a sequence of one-character strings; positions are      *)
(* 1-based here and 0-based in the source.                                 *)
(***************************************************************************)
EXTENDS Integers, Sequences, FiniteSets, TLC

VARIABLES
    text,             \* text_line_to_text_nodes: its argument
    stage,            \* text_line_to_text_nodes: the statement about to run
    text_nodes,       \* text_line_to_text_nodes: its local text_nodes
    doc,              \* markdown_to_html_node: its argument
    pc,               \* markdown_to_html_node: the statement about to run
    markdown_blocks,  \* markdown_to_html_node: its local markdown_blocks
    ix,               \* markdown_to_html_node: blocks converted so far
    nodes,            \* markdown_to_html_node: its local nodes
    result,           \* the value returned, NoResult until then
    raised,           \* the exception that left the call, "none" until then
    call,             \* a function called on its own: its name, arguments and state
    disk,             \* the files the program reads and writes
    server            \* the dev server: its stored snapshot and its handler

vars == <<text, stage, text_nodes, doc, pc, markdown_blocks, ix, nodes, result, raised,
          call, disk, server>>

inlineVars == <<text, stage, text_nodes>>
docVars == <<doc, pc, markdown_blocks, ix, nodes>>
envVars == <<disk, server>>

(***************************************************************************)
(* Python's str methods, as the source uses them.                          *)
(***************************************************************************)
NL == "\n"

\* the backquote character (U+0060), which a TLA+ string cannot hold
BQ == "bq"

Whitespace == {" ", NL, "\t"}

Digits == {"0", "1", "2", "3", "4", "5", "6", "7", "8", "9"}

Min(S) == CHOOSE x \in S : \A y \in S : x <= y

Max(S) == CHOOSE x \in S : \A y \in S : x >= y

\* s.find(d, from): the first position >= from where d occurs, 0 when none
find(s, d, from) ==
    LET S == {i \in from..(Len(s) - Len(d) + 1) : SubSeq(s, i, i + Len(d) - 1) = d}
    IN  IF S = {} THEN 0 ELSE Min(S)

\* d in s
contains(s, d) == find(s, d, 1) # 0

RECURSIVE count_from(_, _, _)
count_from(s, d, from) ==
    LET i == find(s, d, from)
    IN  IF i = 0 THEN 0 ELSE 1 + count_from(s, d, i + Len(d))

\* s.count(d): occurrences that do not overlap, scanned from the left
count(s, d) == count_from(s, d, 1)

startswith(s, d) == Len(s) >= Len(d) /\ SubSeq(s, 1, Len(d)) = d

endswith(s, d) == Len(s) >= Len(d) /\ SubSeq(s, Len(s) - Len(d) + 1, Len(s)) = d

\* s[a:-b] for a, b >= 0 (b > 0)
slice(s, a, b) == SubSeq(s, a + 1, Len(s) - b)

RECURSIVE split(_, _)
\* s.split(sep)
split(s, sep) ==
    LET i == find(s, sep, 1)
    IN  IF i = 0 THEN <<s>>
        ELSE <<SubSeq(s, 1, i - 1)>> \o split(SubSeq(s, i + Len(sep), Len(s)), sep)

\* s.split(sep, maxsplit=1)
split_once(s, sep) ==
    LET i == find(s, sep, 1)
    IN  IF i = 0 THEN <<s>>
        ELSE <<SubSeq(s, 1, i - 1), SubSeq(s, i + Len(sep), Len(s))>>

RECURSIVE join(_, _)
\* sep.join(parts)
join(parts, sep) ==
    IF parts = <<>> THEN <<>>
    ELSE IF Len(parts) = 1 THEN parts[1]
    ELSE parts[1] \o sep \o join(Tail(parts), sep)

lstrip(s) ==
    LET S == {i \in 1..Len(s) : s[i] \notin Whitespace}
    IN  IF S = {} THEN <<>> ELSE SubSeq(s, Min(S), Len(s))

rstrip(s) ==
    LET S == {i \in 1..Len(s) : s[i] \notin Whitespace}
    IN  IF S = {} THEN <<>> ELSE SubSeq(s, 1, Max(S))

strip(s) ==
    LET S == {i \in 1..Len(s) : s[i] \notin Whitespace}
    IN  IF S = {} THEN <<>> ELSE SubSeq(s, Min(S), Max(S))

RECURSIVE replace(_, _, _)
\* s.replace(old, new)
replace(s, old, new) ==
    LET i == find(s, old, 1)
    IN  IF i = 0 THEN s
        ELSE SubSeq(s, 1, i - 1) \o new \o replace(SubSeq(s, i + Len(old), Len(s)), old, new)

RECURSIVE int(_)
\* int(s) for a string of decimal digits
int(s) ==
    IF s = <<>> THEN 0
    ELSE 10 * int(SubSeq(s, 1, Len(s) - 1))
         + (CHOOSE v \in 0..9 : ToString(v) = s[Len(s)])

(***************************************************************************)
(* TextNode (src/textnode.py) and the six text types.                      *)
(***************************************************************************)
TEXT_TYPE_TEXT == "text"
TEXT_TYPE_BOLD == "bold"
TEXT_TYPE_ITALIC == "italic"
TEXT_TYPE_CODE == "code"
TEXT_TYPE_LINK == "link"
TEXT_TYPE_IMAGE == "image"

\* Python's None where a str may stand
None == <<"None">>

TextNode(t, type, url) == [text |-> t, text_type |-> type, url |-> url]

\* A list under construction, or the exception that ended its construction
Ok(list) == [err |-> "none", list |-> list]

Raise(e) == [err |-> e, list |-> <<>>]

\* an append that leaves the target of the new span out
append_node_no_url(acc, t, type, url) ==
    IF acc.err # "none" THEN acc
    ELSE IF t = <<>> THEN Raise("ValueError")
    ELSE Ok(Append(acc.list, TextNode(t, type, None)))

\* list.append(TextNode(t, type, url)); the constructor raises on empty text
append_node(acc, t, type, url) ==
    IF acc.err # "none" THEN acc
    ELSE IF t = <<>> THEN Raise("ValueError")
    ELSE Ok(Append(acc.list, TextNode(t, type, url)))

(***************************************************************************)
(* extract_markdown_images / extract_markdown_links: re.findall of         *)
(*     !\[(.*?)\]\((.*?)\)     and     \[(.*?)\]\((.*?)\)                  *)
(* '.' matches any character but a newline; both groups are lazy.          *)
(***************************************************************************)
NoNewline(s, a, b) == \A q \in a..b : s[q] # NL

\* the closing ')' of a match whose "](" is at j: the first one on the line
CloseOf(s, j) == {k \in (j + 2)..Len(s) : s[k] = ")" /\ NoNewline(s, j + 2, k - 1)}

\* the "](" positions that let a match opened by the '[' at o succeed
MiddleOf(s, o) ==
    {j \in (o + 1)..(Len(s) - 1) :
        /\ s[j] = "]"
        /\ s[j + 1] = "("
        /\ NoNewline(s, o + 1, j - 1)
        /\ CloseOf(s, j) # {}}

\* whether the pattern (with p = 1: preceded by '!') matches at position i
MatchesAt(s, i, p) ==
    /\ i + p <= Len(s)
    /\ s[i + p] = "["
    /\ p = 1 => s[i] = "!"
    /\ MiddleOf(s, i + p) # {}

RECURSIVE findall(_, _, _)
\* the matches at or after from, left to right, not overlapping: <<group 1, group 2>>
findall(s, from, p) ==
    LET S == {i \in from..Len(s) : MatchesAt(s, i, p)}
    IN  IF S = {} THEN <<>>
        ELSE LET o == Min(S) + p
                 j == Min(MiddleOf(s, o))
                 k == Min(CloseOf(s, j))
             IN  <<<<SubSeq(s, o + 1, j - 1), SubSeq(s, j + 2, k - 1)>>>>
                 \o findall(s, k + 1, p)

extract_markdown_images(s) == findall(s, 1, 1)

extract_markdown_links(s) == findall(s, 1, 0)

(***************************************************************************)
(* split_nodes_image and split_nodes_link (src/core/text_functions.py).    *)
(***************************************************************************)
RECURSIVE image_loop_closed(_, _)
\* a loop that raises when a '!' is left with no image to take
image_loop_closed(current_text, acc) ==
    IF acc.err # "none" THEN acc
    ELSE IF current_text # <<>> /\ ~contains(current_text, <<"!">>)
    THEN append_node(acc, current_text, TEXT_TYPE_TEXT, None)
    ELSE LET images == extract_markdown_images(current_text)
         IN  IF images = <<>>
             THEN Raise("ValueError")
             ELSE LET image_tuple == images[1]
                      splits == split_once(current_text,
                                    <<"!", "[">> \o image_tuple[1] \o <<"]", "(">>
                                    \o image_tuple[2] \o <<")">>)
                      before == IF splits[1] # <<>>
                                THEN append_node(acc, splits[1], TEXT_TYPE_TEXT, None)
                                ELSE acc
                      with == append_node(before, image_tuple[1], TEXT_TYPE_IMAGE,
                                          image_tuple[2])
                  IN  IF splits[2] # <<>> THEN image_loop_closed(splits[2], with)
                      ELSE with

RECURSIVE image_loop(_, _)
\* the while-loop over current_text of one Plain node, appending to acc
image_loop(current_text, acc) ==
    IF acc.err # "none" THEN acc
    ELSE IF current_text # <<>> /\ ~contains(current_text, <<"!">>)
    THEN append_node(acc, current_text, TEXT_TYPE_TEXT, None)
    ELSE LET images == extract_markdown_images(current_text)
         IN  IF images = <<>>
             THEN append_node(acc, current_text, TEXT_TYPE_TEXT, None)
             ELSE LET image_tuple == images[1]
                      splits == split_once(current_text,
                                    <<"!", "[">> \o image_tuple[1] \o <<"]", "(">>
                                    \o image_tuple[2] \o <<")">>)
                      before == IF splits[1] # <<>>
                                THEN append_node(acc, splits[1], TEXT_TYPE_TEXT, None)
                                ELSE acc
                      with == append_node(before, image_tuple[1], TEXT_TYPE_IMAGE,
                                          image_tuple[2])
                  IN  IF splits[2] # <<>> THEN image_loop(splits[2], with) ELSE with

RECURSIVE image_nodes(_, _, _)
\* the for-loop over old_nodes, from node n on
image_nodes(old_nodes, n, acc) ==
    IF n > Len(old_nodes) \/ acc.err # "none" THEN acc
    ELSE IF old_nodes[n].text_type # TEXT_TYPE_TEXT
    THEN image_nodes(old_nodes, n + 1, Ok(Append(acc.list, old_nodes[n])))
    ELSE image_nodes(old_nodes, n + 1, image_loop(old_nodes[n].text, acc))

split_nodes_image(old_nodes) == image_nodes(old_nodes, 1, Ok(<<>>))

RECURSIVE link_loop_open(_, _)
\* a loop that emits as Plain a text with a '[' and no link to take
link_loop_open(current_text, acc) ==
    IF acc.err # "none" THEN acc
    ELSE LET links == extract_markdown_links(current_text)
         IN  IF links = <<>>
             THEN append_node(acc, current_text, TEXT_TYPE_TEXT, None)
             ELSE LET link_tuple == links[1]
                      splits == split_once(current_text,
                                    <<"[">> \o link_tuple[1] \o <<"]", "(">>
                                    \o link_tuple[2] \o <<")">>)
                      before == IF splits[1] # <<>>
                                THEN append_node(acc, splits[1], TEXT_TYPE_TEXT, None)
                                ELSE acc
                      with == append_node(before, link_tuple[1], TEXT_TYPE_LINK,
                                          link_tuple[2])
                  IN  IF splits[2] # <<>> THEN link_loop_open(splits[2], with)
                      ELSE with

RECURSIVE link_loop(_, _)
link_loop(current_text, acc) ==
    IF acc.err # "none" THEN acc
    ELSE IF current_text # <<>> /\ ~contains(current_text, <<"[">>)
    THEN append_node(acc, current_text, TEXT_TYPE_TEXT, None)
    ELSE LET links == extract_markdown_links(current_text)
         IN  IF links = <<>>
             THEN Raise("ValueError")
             ELSE LET link_tuple == links[1]
                      splits == split_once(current_text,
                                    <<"[">> \o link_tuple[1] \o <<"]", "(">>
                                    \o link_tuple[2] \o <<")">>)
                      before == IF splits[1] # <<>>
                                THEN append_node(acc, splits[1], TEXT_TYPE_TEXT, None)
                                ELSE acc
                      with == append_node(before, link_tuple[1], TEXT_TYPE_LINK,
                                          link_tuple[2])
                  IN  IF splits[2] # <<>> THEN link_loop(splits[2], with) ELSE with

RECURSIVE link_nodes(_, _, _)
link_nodes(old_nodes, n, acc) ==
    IF n > Len(old_nodes) \/ acc.err # "none" THEN acc
    ELSE IF old_nodes[n].text_type # TEXT_TYPE_TEXT
    THEN link_nodes(old_nodes, n + 1, Ok(Append(acc.list, old_nodes[n])))
    ELSE link_nodes(old_nodes, n + 1, link_loop(old_nodes[n].text, acc))

split_nodes_link(old_nodes) == link_nodes(old_nodes, 1, Ok(<<>>))

(***************************************************************************)
(* split_nodes_delimiter and its inner extract_parts.                      *)
(***************************************************************************)
RECURSIVE extract_parts_loop_empty_word(_, _, _, _, _, _)
\* a scan that appends the word before an opening delimiter even when empty
extract_parts_loop_empty_word(s, delimiter, i, current_part, delim_found, parts) ==
    IF i > Len(s)
    THEN Ok(IF current_part # <<>> THEN Append(parts, current_part) ELSE parts)
    ELSE LET cp == Append(current_part, s[i])
             dl == Len(delimiter)
         IN  IF ~endswith(cp, delimiter)
             THEN extract_parts_loop_empty_word(s, delimiter, i + 1, cp, delim_found, parts)
             ELSE IF delim_found
             THEN IF slice(cp, dl, dl) = <<>>
                  THEN extract_parts_loop_empty_word(s, delimiter, i + 1, cp, TRUE, parts)
                  ELSE IF count(cp, delimiter) % 2 # 0
                  THEN Raise("NotImplementedError")
                  ELSE extract_parts_loop_empty_word(s, delimiter, i + 1, <<>>, FALSE,
                                                     Append(parts, cp))
             ELSE extract_parts_loop_empty_word(s, delimiter, i + 1, delimiter, TRUE,
                                                Append(parts, slice(cp, 0, dl)))

RECURSIVE extract_parts_loop_nested(_, _, _, _, _, _)
\* a scan that closes a region whatever the number of delimiters in its buffer
extract_parts_loop_nested(s, delimiter, i, current_part, delim_found, parts) ==
    IF i > Len(s)
    THEN Ok(IF current_part # <<>> THEN Append(parts, current_part) ELSE parts)
    ELSE LET cp == Append(current_part, s[i])
             dl == Len(delimiter)
         IN  IF ~endswith(cp, delimiter)
             THEN extract_parts_loop_nested(s, delimiter, i + 1, cp, delim_found, parts)
             ELSE IF delim_found
             THEN IF slice(cp, dl, dl) = <<>>
                  THEN extract_parts_loop_nested(s, delimiter, i + 1, cp, TRUE, parts)
                  ELSE extract_parts_loop_nested(s, delimiter, i + 1, <<>>, FALSE,
                                                 Append(parts, cp))
             ELSE IF slice(cp, 0, dl) # <<>>
             THEN extract_parts_loop_nested(s, delimiter, i + 1, delimiter, TRUE,
                                            Append(parts, slice(cp, 0, dl)))
             ELSE extract_parts_loop_nested(s, delimiter, i + 1, delimiter, TRUE, parts)

RECURSIVE extract_parts_loop(_, _, _, _, _, _)
\* the for-loop over the characters of s, about to read character i
extract_parts_loop(s, delimiter, i, current_part, delim_found, parts) ==
    IF i > Len(s)
    THEN Ok(IF current_part # <<>> THEN Append(parts, current_part) ELSE parts)
    ELSE LET cp == Append(current_part, s[i])
             dl == Len(delimiter)
         IN  IF ~endswith(cp, delimiter)
             THEN extract_parts_loop(s, delimiter, i + 1, cp, delim_found, parts)
             ELSE IF delim_found
             THEN IF slice(cp, dl, dl) = <<>>
                  THEN extract_parts_loop(s, delimiter, i + 1, cp, TRUE, parts)
                  ELSE IF count(cp, delimiter) % 2 # 0
                  THEN Raise("NotImplementedError")
                  ELSE extract_parts_loop(s, delimiter, i + 1, <<>>, FALSE,
                                          Append(parts, cp))
             ELSE extract_parts_loop(s, delimiter, i + 1, delimiter, TRUE,
                      IF slice(cp, 0, dl) # <<>>
                      THEN Append(parts, slice(cp, 0, dl))
                      ELSE parts)

extract_parts(s, delimiter) == extract_parts_loop(s, delimiter, 1, <<>>, FALSE, <<>>)

RECURSIVE parts_to_nodes(_, _, _, _, _)
\* the for-loop over parts, from part n on
parts_to_nodes(parts, n, delimiter, text_type, acc) ==
    IF n > Len(parts) \/ acc.err # "none" THEN acc
    ELSE parts_to_nodes(parts, n + 1, delimiter, text_type,
             IF startswith(parts[n], delimiter)
             THEN append_node(acc, slice(parts[n], Len(delimiter), Len(delimiter)),
                              text_type, None)
             ELSE append_node(acc, parts[n], TEXT_TYPE_TEXT, None))

\* a pass that keeps a node whenever extract_parts gives its whole text back
delimiter_node_unsplit(node, delimiter, text_type, acc) ==
    IF ~contains(node.text, delimiter) THEN Ok(Append(acc.list, node))
    ELSE IF count(node.text, delimiter) % 2 # 0 THEN Raise("ValueError")
    ELSE IF extract_parts(node.text, delimiter).err # "none"
    THEN Raise(extract_parts(node.text, delimiter).err)
    ELSE IF extract_parts(node.text, delimiter).list[1] = node.text
    THEN Ok(Append(acc.list, node))
    ELSE parts_to_nodes(extract_parts(node.text, delimiter).list, 1, delimiter,
                        text_type, acc)

\* one pass of the for-loop over old_nodes: node appended to acc, split or not
delimiter_node(node, delimiter, text_type, acc) ==
    IF ~contains(node.text, delimiter) THEN Ok(Append(acc.list, node))
    ELSE IF count(node.text, delimiter) % 2 # 0 THEN Raise("ValueError")
    ELSE LET parts == extract_parts(node.text, delimiter)
         IN  IF parts.err # "none" THEN Raise(parts.err)
             ELSE IF parts.list[1] = node.text /\ ~startswith(parts.list[1], delimiter)
             THEN Ok(Append(acc.list, node))
             ELSE parts_to_nodes(parts.list, 1, delimiter, text_type, acc)

RECURSIVE delimiter_nodes(_, _, _, _, _)
delimiter_nodes(old_nodes, n, delimiter, text_type, acc) ==
    IF n > Len(old_nodes) \/ acc.err # "none" THEN acc
    ELSE delimiter_nodes(old_nodes, n + 1, delimiter, text_type,
             delimiter_node(old_nodes[n], delimiter, text_type, acc))

split_nodes_delimiter(old_nodes, delimiter, text_type) ==
    delimiter_nodes(old_nodes, 1, delimiter, text_type, Ok(<<>>))

(***************************************************************************)
(* text_line_to_text_nodes: the five stages in the order of the source.    *)
(***************************************************************************)
BOLD_DELIMITER == <<"*", "*">>

ITALIC_DELIMITER == <<"_">>

CODE_DELIMITER == <<BQ>>

\* the list after the statement named by at has run on list
run_stage(at, s, list) ==
    CASE at = "construct" -> append_node(Ok(<<>>), s, TEXT_TYPE_TEXT, None)
      [] at = "image" -> split_nodes_image(list)
      [] at = "link" -> split_nodes_link(list)
      [] at = "bold" -> split_nodes_delimiter(list, BOLD_DELIMITER, TEXT_TYPE_BOLD)
      [] at = "italic" -> split_nodes_delimiter(list, ITALIC_DELIMITER, TEXT_TYPE_ITALIC)
      [] at = "code" -> split_nodes_delimiter(list, CODE_DELIMITER, TEXT_TYPE_CODE)

next_stage(at) ==
    CASE at = "construct" -> "image"
      [] at = "image" -> "link"
      [] at = "link" -> "bold"
      [] at = "bold" -> "italic"
      [] at = "italic" -> "code"
      [] at = "code" -> "return"

RECURSIVE run_from(_, _, _)
\* the statements after the one named by at, whose outcome is r
run_after(at, s, r) ==
    IF r.err # "none" THEN r ELSE run_from(next_stage(at), s, r.list)

\* the statements from the one named by at to the return
run_from(at, s, list) ==
    IF at = "return" THEN Ok(list)
    ELSE run_after(at, s, run_stage(at, s, list))

text_line_to_text_nodes(s) == run_from("construct", s, <<>>)

(***************************************************************************)
(* HTMLNode, LeafNode and ParentNode (src/htmlnode.py). A dict of props is *)
(* the sequence of its <<key, value>> pairs in insertion order.            *)
(***************************************************************************)
\* Python's None where a tag may stand
NoTag == "None"

HTMLNode(class, tag, value, children, props) ==
    [class |-> class, tag |-> tag, value |-> value, children |-> children,
     props |-> props]

\* LeafNode(value, tag, props): value is never None in this program
LeafNode(value, tag, props) == HTMLNode("LeafNode", tag, value, <<>>, props)

\* children=None
NoChildren == <<[class |-> "NoneType"]>>

\* a test of the tag alone
parent_raises_on_tag(children, tag) == tag = NoTag \/ tag = ""

\* a test that lets an empty list of children through
parent_raises_on_absent(children, tag) ==
    tag = NoTag \/ tag = "" \/ children = NoChildren

\* whether ParentNode(children, tag, props) raises ValueError
parent_raises(children, tag) ==
    \/ tag = NoTag \/ tag = ""
    \/ children = NoChildren \/ children = <<>>

ParentNode(children, tag, props) == HTMLNode("ParentNode", tag, None, children, props)

text_node_to_html_node(text_node) ==
    CASE text_node.text_type = TEXT_TYPE_TEXT -> LeafNode(text_node.text, NoTag, <<>>)
      [] text_node.text_type = TEXT_TYPE_BOLD -> LeafNode(text_node.text, "b", <<>>)
      [] text_node.text_type = TEXT_TYPE_ITALIC -> LeafNode(text_node.text, "i", <<>>)
      [] text_node.text_type = TEXT_TYPE_CODE -> LeafNode(text_node.text, "code", <<>>)
      [] text_node.text_type = TEXT_TYPE_LINK ->
            LeafNode(text_node.text, "a", <<<<"href", text_node.url>>>>)
      [] text_node.text_type = TEXT_TYPE_IMAGE ->
            LeafNode(<<>>, "img", <<<<"src", text_node.url>>, <<"alt", text_node.text>>>>)

\* [text_node_to_html_node(node) for node in list]
html_nodes(list) == [n \in 1..Len(list) |-> text_node_to_html_node(list[n])]

(***************************************************************************)
(* Rendering.  The HTML text is a sequence whose members are single        *)
(* characters, except that a tag name or an attribute name is one member.  *)
(***************************************************************************)
QUOTE == "\""

RECURSIVE props_loop(_, _, _)
\* the for-loop of props_to_html, about to read attribute n
props_loop(props, n, html) ==
    IF n > Len(props) THEN html
    ELSE props_loop(props, n + 1,
                    html \o <<props[n][1], "=", QUOTE>> \o props[n][2] \o <<QUOTE, " ">>)

\* props_to_html without the final rstrip()
props_to_html_unstripped(props) == props_loop(props, 1, <<>>)

props_to_html(props) == rstrip(props_loop(props, 1, <<>>))

\* LeafNode.to_html
leaf_to_html(node) ==
    IF node.tag = NoTag \/ node.tag = "" THEN node.value
    ELSE IF node.props = <<>>
    THEN <<"<", node.tag, ">">> \o node.value \o <<"<", "/", node.tag, ">">>
    ELSE IF node.tag = "img"
    THEN <<"<", node.tag, " ">> \o props_to_html(node.props) \o node.value
            \o <<" ", "/", ">">>
    ELSE <<"<", node.tag, " ">> \o props_to_html(node.props) \o <<">">> \o node.value
            \o <<"<", "/", node.tag, ">">>

\* the opening of ParentNode.to_html: "<tag" and then " attrs>" or ">"
parent_open(node) ==
    IF node.props # <<>>
    THEN <<"<", node.tag, " ">> \o props_to_html(node.props) \o <<">">>
    ELSE <<"<", node.tag, ">">>

RECURSIVE to_html(_)
RECURSIVE children_to_html(_, _, _)
\* html_string += child.to_html(), unless the child's to_html raised
add_child(html_string, r, children, n) ==
    IF r.err # "none" THEN r
    ELSE children_to_html(children, n + 1, Ok(html_string.list \o r.list))

\* the for-loop of ParentNode.to_html, about to read child n
children_to_html(children, n, html_string) ==
    IF n > Len(children) THEN html_string
    ELSE add_child(html_string, to_html(children[n]), children, n)

\* html_string += "</tag>" after the loop
parent_close(html_string, tag) ==
    IF html_string.err # "none" THEN html_string
    ELSE Ok(html_string.list \o <<"<", "/", tag, ">">>)

\* to_html of a LeafNode or of a ParentNode
to_html(node) ==
    IF node.class = "LeafNode" THEN Ok(leaf_to_html(node))
    ELSE IF node.tag = NoTag THEN Raise("ValueError")
    ELSE parent_close(children_to_html(node.children, 1, Ok(parent_open(node))),
                      node.tag)

(***************************************************************************)
(* The block segmenter (src/core/markdown_functions.py).                   *)
(***************************************************************************)
FENCE == <<BQ, BQ, BQ>>

\* '^' under re.MULTILINE: the start of the string or just after a newline
LineStart(s, i) == i = 1 \/ s[i - 1] = NL

\* '^`{3}' matches at position i
FenceAt(s, i) == LineStart(s, i) /\ i + 2 <= Len(s) /\ SubSeq(s, i, i + 2) = FENCE

\* where the closing '^`{3}' of a match opened at i may stand
ClosingOf(s, i) == {c \in (i + 3)..Len(s) : FenceAt(s, c)}

RECURSIVE codeblocks_from(_, _)
\* re.finditer of ^`{3}\n?[\s\S]*?\n?^`{3} from position from on: the lazy
\* middle stops at the first closing fence, and the scan resumes after it
codeblocks_from(s, from) ==
    LET S == {i \in from..Len(s) : FenceAt(s, i) /\ ClosingOf(s, i) # {}}
    IN  IF S = {} THEN <<>>
        ELSE LET i == Min(S)
                 c == Min(ClosingOf(s, i))
             IN  <<<<i - 1, c + 2>>>> \o codeblocks_from(s, c + 3)

\* the (start, end) pairs of the source, 0-based and half-open
get_codeblock_indices(s) == codeblocks_from(s, 1)

\* add_block() without its test: the current block is appended even when empty
add_block_always(blocks, current_block) ==
    Append(blocks, strip(join(current_block, <<NL>>)))

\* add_block(): blocks with the current block, when there is one, appended
add_block(blocks, current_block) ==
    IF current_block # <<>>
    THEN Append(blocks, strip(join(current_block, <<NL>>)))
    ELSE blocks

RECURSIVE non_codeblocks_loop(_, _, _, _)
\* the for-loop over lines, about to read line n
non_codeblocks_loop(lines, n, blocks, current_block) ==
    IF n > Len(lines) THEN add_block(blocks, current_block)
    ELSE LET stripped_line == strip(lines[n])
         IN  IF stripped_line = <<>>
             THEN non_codeblocks_loop(lines, n + 1, add_block(blocks, current_block), <<>>)
             ELSE non_codeblocks_loop(lines, n + 1, blocks,
                                      Append(current_block, stripped_line))

get_non_codeblocks(s) == non_codeblocks_loop(split(s, <<NL>>), 1, <<>>, <<>>)

RECURSIVE blocks_loop(_, _, _, _, _)
\* the for-loop over codeblock_indices, about to read pair n
blocks_loop(s, indices, n, current_pos, blocks) ==
    IF n > Len(indices)
    THEN blocks \o get_non_codeblocks(SubSeq(s, current_pos + 1, Len(s)))
    ELSE LET c_start == indices[n][1]
             c_end == indices[n][2]
         IN  blocks_loop(s, indices, n + 1, c_end,
                 Append(blocks \o get_non_codeblocks(SubSeq(s, current_pos + 1, c_start)),
                        SubSeq(s, c_start + 1, c_end)))

\* a segmenter that splits on blank lines everywhere, fenced code included
markdown_to_blocks_unfenced(s) == get_non_codeblocks(s)

markdown_to_blocks(s) ==
    LET codeblock_indices == get_codeblock_indices(s)
    IN  IF codeblock_indices # <<>>
        THEN blocks_loop(s, codeblock_indices, 1, 0, <<>>)
        ELSE get_non_codeblocks(s)

(***************************************************************************)
(* The block classifier.                                                   *)
(***************************************************************************)
BLOCK_TYPE_PARAGRAPH == "paragraph"
BLOCK_TYPE_HEADING == "heading"
BLOCK_TYPE_CODE == "code"
BLOCK_TYPE_QUOTE == "quote"
BLOCK_TYPE_UNORD_LIST == "unordered_list"
BLOCK_TYPE_ORD_LIST == "ordered_list"

\* the length of the run of characters of S that starts at position i
RunLength(s, i, S) ==
    LET stop == {q \in i..Len(s) : s[q] \notin S}
    IN  IF stop = {} THEN Len(s) - i + 1 ELSE Min(stop) - i

\* the length of the match of #{1,6}\s at position i, 0 when there is none
heading_match(s, i) ==
    LET h == RunLength(s, i, {"#"})
    IN  IF h >= 1 /\ h <= 6 /\ i + h <= Len(s) /\ s[i + h] \in Whitespace
        THEN h + 1 ELSE 0

\* the length of the match of >\s at position i, 0 when there is none
quote_match(s, i) ==
    IF i + 1 <= Len(s) /\ s[i] = ">" /\ s[i + 1] \in Whitespace THEN 2 ELSE 0

\* the length of the match of [*-]\s at position i, 0 when there is none
unord_match(s, i) ==
    IF i + 1 <= Len(s) /\ s[i] \in {"*", "-"} /\ s[i + 1] \in Whitespace THEN 2 ELSE 0

\* the length of the match of \d+\.\s at position i, 0 when there is none
ord_match(s, i) ==
    LET d == RunLength(s, i, Digits)
    IN  IF d >= 1 /\ i + d + 1 <= Len(s) /\ s[i + d] = "." /\ s[i + d + 1] \in Whitespace
        THEN d + 2 ELSE 0

\* get_markdown_block_type without the numbering loop of its ordered-list branch
get_markdown_block_type_unnumbered(block) ==
    LET lines == split(block, <<NL>>)
    IN  IF heading_match(block, 1) > 0 THEN BLOCK_TYPE_HEADING
        ELSE IF startswith(block, FENCE) /\ endswith(block, FENCE) THEN BLOCK_TYPE_CODE
        ELSE IF \A n \in 1..Len(lines) : startswith(lines[n], <<">">>)
        THEN BLOCK_TYPE_QUOTE
        ELSE IF \A n \in 1..Len(lines) : unord_match(lines[n], 1) > 0
        THEN BLOCK_TYPE_UNORD_LIST
        ELSE IF \A n \in 1..Len(lines) : ord_match(lines[n], 1) > 0
        THEN BLOCK_TYPE_ORD_LIST
        ELSE BLOCK_TYPE_PARAGRAPH

\* get_markdown_block_type with any() in place of all() in its quote branch
get_markdown_block_type_any_quote(block) ==
    LET lines == split(block, <<NL>>)
    IN  IF heading_match(block, 1) > 0 THEN BLOCK_TYPE_HEADING
        ELSE IF startswith(block, FENCE) /\ endswith(block, FENCE) THEN BLOCK_TYPE_CODE
        ELSE IF \E n \in 1..Len(lines) : startswith(lines[n], <<">">>)
        THEN BLOCK_TYPE_QUOTE
        ELSE IF \A n \in 1..Len(lines) : unord_match(lines[n], 1) > 0
        THEN BLOCK_TYPE_UNORD_LIST
        ELSE IF \A n \in 1..Len(lines) : ord_match(lines[n], 1) > 0
        THEN IF \E n \in 1..Len(lines) : int(split(lines[n], <<".">>)[1]) # n
             THEN BLOCK_TYPE_PARAGRAPH
             ELSE BLOCK_TYPE_ORD_LIST
        ELSE BLOCK_TYPE_PARAGRAPH

get_markdown_block_type(block) ==
    LET lines == split(block, <<NL>>)
    IN  IF heading_match(block, 1) > 0 THEN BLOCK_TYPE_HEADING
        ELSE IF startswith(block, FENCE) /\ endswith(block, FENCE) THEN BLOCK_TYPE_CODE
        ELSE IF \A n \in 1..Len(lines) : startswith(lines[n], <<">">>)
        THEN BLOCK_TYPE_QUOTE
        ELSE IF \A n \in 1..Len(lines) : unord_match(lines[n], 1) > 0
        THEN BLOCK_TYPE_UNORD_LIST
        ELSE IF \A n \in 1..Len(lines) : ord_match(lines[n], 1) > 0
        THEN IF \E n \in 1..Len(lines) : int(split(lines[n], <<".">>)[1]) # n
             THEN BLOCK_TYPE_PARAGRAPH
             ELSE BLOCK_TYPE_ORD_LIST
        ELSE BLOCK_TYPE_PARAGRAPH

(***************************************************************************)
(* The block-to-node converter.                                            *)
(***************************************************************************)
RECURSIVE sub_prefix(_, _, _)
\* re.sub(pattern, "", s, flags=re.MULTILINE) for the line-start patterns
\* ^>\s, ^[*-]\s and ^\d+\.\s, from position i on: '^' looks at s itself
sub_prefix(s, i, pattern) ==
    IF i > Len(s) THEN <<>>
    ELSE LET m == IF ~LineStart(s, i) THEN 0
                  ELSE CASE pattern = "quote" -> quote_match(s, i)
                         [] pattern = "unord" -> unord_match(s, i)
                         [] pattern = "ord" -> ord_match(s, i)
         IN  IF m > 0 THEN sub_prefix(s, i + m, pattern)
             ELSE <<s[i]>> \o sub_prefix(s, i + 1, pattern)

markdown_heading_to_text_node(s) ==
    IF heading_match(s, 1) > 0
    THEN text_line_to_text_nodes(lstrip(replace(s, <<"#">>, <<>>)))
    ELSE text_line_to_text_nodes(s)

markdown_quote_to_text_node(s) ==
    IF s = <<">", " ">> THEN Raise("NotImplementedError")
    ELSE text_line_to_text_nodes(sub_prefix(s, 1, "quote"))

\* items.append(text_line_to_text_nodes(line)), item being the outcome of the call
append_item(acc, item) ==
    IF item.err # "none" THEN Raise(item.err) ELSE Ok(Append(acc.list, item.list))

RECURSIVE list_items(_, _, _)
\* the for-loop over the lines left after the markers are removed
list_items(lines, n, acc) ==
    IF n > Len(lines) \/ acc.err # "none" THEN acc
    ELSE IF lines[n] = <<>> THEN Raise("NotImplementedError")
    ELSE list_items(lines, n + 1, append_item(acc, text_line_to_text_nodes(lines[n])))

\* a list conversion that passes over the lines left empty
markdown_unord_list_skipping_empty(s) ==
    list_items(SelectSeq(split(sub_prefix(s, 1, "unord"), <<NL>>),
                         LAMBDA line : line # <<>>), 1, Ok(<<>>))

markdown_unord_list_to_text_node(s) ==
    list_items(split(sub_prefix(s, 1, "unord"), <<NL>>), 1, Ok(<<>>))

markdown_ord_list_to_text_node(s) ==
    list_items(split(sub_prefix(s, 1, "ord"), <<NL>>), 1, Ok(<<>>))

markdown_paragraph_to_text_node(s) == text_line_to_text_nodes(s)

\* what a conversion yields: a node, or the exception that ended it
Node(n) == [err |-> "none", node |-> n]

Fail(e) == [err |-> e, node |-> None]

\* ParentNode(children=[text_node_to_html_node(node) for node in spans], tag=tag)
wrap(spans, tag) ==
    IF spans.err # "none" THEN Fail(spans.err)
    ELSE IF parent_raises(html_nodes(spans.list), tag) THEN Fail("ValueError")
    ELSE Node(ParentNode(html_nodes(spans.list), tag, <<>>))

\* the ul / ol of one li per item
wrap_list(items, tag) ==
    IF items.err # "none" THEN Fail(items.err)
    ELSE LET lis == [n \in 1..Len(items.list) |-> wrap(Ok(items.list[n]), "li")]
         IN  IF \E n \in 1..Len(lis) : lis[n].err # "none" THEN Fail("ValueError")
             ELSE IF parent_raises(lis, tag) THEN Fail("ValueError")
             ELSE Node(ParentNode([n \in 1..Len(lis) |-> lis[n].node], tag, <<>>))

\* a code branch that runs the inline parser on the content of the block
code_to_node_parsed(block) ==
    wrap(text_line_to_text_nodes(slice(block, 3, 3)), "pre")

\* the code branch of the loop: LeafNode(value=block[3:-3], tag="pre")
code_to_node(block) == Node(LeafNode(slice(block, 3, 3), "pre", <<>>))

\* one pass of the for-loop of markdown_to_html_node: the node of a block
block_to_node(block) ==
    LET type == get_markdown_block_type(block)
    IN  CASE type = BLOCK_TYPE_PARAGRAPH ->
                wrap(markdown_paragraph_to_text_node(block), "p")
          [] type = BLOCK_TYPE_HEADING ->
                wrap(markdown_heading_to_text_node(block),
                     "h" \o ToString(count(block, <<"#">>)))
          [] type = BLOCK_TYPE_CODE -> code_to_node(block)
          [] type = BLOCK_TYPE_QUOTE ->
                wrap(markdown_quote_to_text_node(block), "blockquote")
          [] type = BLOCK_TYPE_UNORD_LIST ->
                wrap_list(markdown_unord_list_to_text_node(block), "ul")
          [] type = BLOCK_TYPE_ORD_LIST ->
                wrap_list(markdown_ord_list_to_text_node(block), "ol")

RECURSIVE convert_loop(_, _, _)
\* the rest of the for-loop over blocks, r being the outcome of pass n
convert_next(blocks, n, acc, r) ==
    IF r.err # "none" THEN Raise(r.err)
    ELSE convert_loop(blocks, n + 1, Append(acc, r.node))

convert_loop(blocks, n, acc) ==
    IF n > Len(blocks) THEN Ok(acc)
    ELSE convert_next(blocks, n, acc, block_to_node(blocks[n]))

\* ParentNode(children=nodes, tag="div"), children being the outcome of the loop
div_of(children) ==
    IF children.err # "none" THEN Fail(children.err)
    ELSE IF parent_raises(children.list, "div") THEN Fail("ValueError")
    ELSE Node(ParentNode(children.list, "div", <<>>))

\* markdown_to_html_node as a function of its argument
markdown_to_html_node(s) ==
    IF s = <<>> THEN Fail("ValueError")
    ELSE div_of(convert_loop(markdown_to_blocks(s), 1, <<>>))

(***************************************************************************)
(* The page generator (src/core/generate.py).                              *)
(***************************************************************************)
\* the match of # +(.+)$ on a line, Ok(group 1) or no match: the spaces are
\* taken greedily, and one is given back when nothing follows them
title_match(line) ==
    IF Len(line) >= 1 /\ line[1] = "#" /\ RunLength(line, 2, {" "}) >= 1
    THEN IF 1 + RunLength(line, 2, {" "}) < Len(line)
         THEN Ok(SubSeq(line, 2 + RunLength(line, 2, {" "}), Len(line)))
         ELSE IF RunLength(line, 2, {" "}) >= 2 THEN Ok(<<" ">>)
         ELSE Raise("no match")
    ELSE Raise("no match")

RECURSIVE title_search(_, _)
\* re.search(r"^# +(.+)$", text, re.MULTILINE) from line n on, and lines 20-22
title_search(lines, n) ==
    IF n > Len(lines) THEN Raise("ValueError")
    ELSE IF title_match(lines[n]).err = "none" THEN title_match(lines[n])
    ELSE title_search(lines, n + 1)

extract_title(t) == title_search(split(t, <<NL>>), 1)

(***************************************************************************)
(* The inputs. A text is up to MaxTokens tokens written one after the      *)
(* other; a document is up to MaxLines lines joined by newlines; a block   *)
(* handed to the converters directly is up to MaxItems lines.              *)
(***************************************************************************)
MaxTokens == 3

MaxLines == 3

MaxItems == 3

Tokens ==
    { <<"a">>, <<"_">>, <<"*">>, <<"*", "*">>, <<BQ>>,
      <<"*", "a", "*">>,
      <<"_", "a", "_">>,
      <<"_", "_", "a", "_", "_">>,
      <<"!", "[", "a", "]", "(", "u", ")">>,
      <<"[", "a", "]", "(", "_", ")">>,
      <<"[", "_", "a", "_", "]", "(", "u", ")">> }

DocLines ==
    { <<>>, <<" ">>, <<"a">>,
      FENCE, FENCE \o <<"_">>,
      <<"#", " ", "a", "#">>, <<"#", "#", " ", "a">>,
      <<">", " ", "a">>, <<">">>,
      <<"*", " ", "a">>, <<"1", ".", " ", "a">> }

ItemLines ==
    { <<"*", " ", "a">>, <<"-", " ", "_", "a", "_">>, <<"*", " ">>, <<"*", " ", "_">>,
      <<"1", ".", " ", "a">>, <<"2", ".", " ", "_", "a", "_">>, <<"2", ".", " ">>,
      <<"a">> }

RECURSIVE Texts(_)
\* the texts of at most n tokens
Texts(n) ==
    IF n = 0 THEN {<<>>}
    ELSE LET shorter == Texts(n - 1)
         IN  shorter \cup {t \o k : t \in shorter, k \in Tokens}

RECURSIVE LinesOf(_, _)
\* the texts of at most n lines of L (at least one)
LinesOf(L, n) ==
    IF n = 1 THEN L
    ELSE LET shorter == LinesOf(L, n - 1)
         IN  shorter \cup {t \o <<NL>> \o k : t \in shorter, k \in L}

NoResult == <<"NoResult">>

(***************************************************************************)
(* text_line_to_text_nodes, one action per statement.                      *)
(***************************************************************************)
InlineIdle == /\ text = <<>> /\ stage = "idle" /\ text_nodes = <<>>

DocIdle == /\ doc = <<>> /\ pc = "idle" /\ markdown_blocks = <<>> /\ ix = 0 /\ nodes = <<>>

CallIdle == call = [fn |-> "none"]

NoDisk == [kind |-> "none"]

EnvIdle == /\ disk = NoDisk /\ server = [pc |-> "off"]

InitInline ==
    /\ text \in Texts(MaxTokens)
    /\ stage = "construct"
    /\ text_nodes = <<>>
    /\ result = NoResult
    /\ raised = "none"
    /\ DocIdle
    /\ CallIdle
    /\ EnvIdle

\* what the statement named by at does: it replaces text_nodes, or raises
RunStage(at) ==
    /\ \E r \in {run_stage(at, text, text_nodes)} :
           IF r.err # "none"
           THEN /\ raised' = r.err
                /\ stage' = "raised"
                /\ UNCHANGED text_nodes
           ELSE /\ text_nodes' = r.list
                /\ stage' = next_stage(at)
                /\ UNCHANGED raised
    /\ UNCHANGED <<text, result, docVars, call, envVars>>

Construct ==
    /\ stage = "construct"
    /\ RunStage("construct")

SplitImage ==
    /\ stage = "image"
    /\ RunStage("image")

SplitLink ==
    /\ stage = "link"
    /\ RunStage("link")

SplitBold ==
    /\ stage = "bold"
    /\ RunStage("bold")

SplitItalic ==
    /\ stage = "italic"
    /\ RunStage("italic")

SplitCode ==
    /\ stage = "code"
    /\ RunStage("code")

ReturnTextNodes ==
    /\ stage = "return"
    /\ result' = text_nodes
    /\ stage' = "returned"
    /\ UNCHANGED <<text, text_nodes, raised, docVars, call, envVars>>

NextInline ==
    \/ Construct
    \/ SplitImage
    \/ SplitLink
    \/ SplitBold
    \/ SplitItalic
    \/ SplitCode
    \/ ReturnTextNodes

SpecInline == InitInline /\ [][NextInline]_vars

(***************************************************************************)
(* markdown_to_html_node, one action per statement and loop pass.          *)
(***************************************************************************)
Init ==
    /\ doc \in LinesOf(DocLines, MaxLines)
    /\ pc = "start"
    /\ markdown_blocks = <<>>
    /\ ix = 0
    /\ nodes = <<>>
    /\ result = NoResult
    /\ raised = "none"
    /\ InlineIdle
    /\ CallIdle
    /\ EnvIdle

\* lines 308-313: the empty-input check and the segmentation
Segment ==
    /\ pc = "start"
    /\ IF doc = <<>>
       THEN /\ raised' = "ValueError"
            /\ pc' = "raised"
            /\ UNCHANGED markdown_blocks
       ELSE /\ markdown_blocks' = markdown_to_blocks(doc)
            /\ pc' = "loop"
            /\ UNCHANGED raised
    /\ UNCHANGED <<doc, ix, nodes, result, inlineVars, call, envVars>>

\* a pass that puts its node before the nodes of the earlier passes
append_block_first(list, r) ==
    IF r.err # "none" THEN Raise(r.err) ELSE Ok(<<r.node>> \o list)

\* nodes.append(...) of one pass of the loop, r being the outcome of the pass
append_block(list, r) ==
    IF r.err # "none" THEN Raise(r.err) ELSE Ok(Append(list, r.node))

\* lines 315-379: one pass of the loop
ConvertBlock ==
    /\ pc = "loop"
    /\ ix < Len(markdown_blocks)
    /\ \E r \in {append_block(nodes, block_to_node(markdown_blocks[ix + 1]))} :
           IF r.err # "none"
           THEN /\ raised' = r.err
                /\ pc' = "raised"
                /\ UNCHANGED <<nodes, ix>>
           ELSE /\ nodes' = r.list
                /\ ix' = ix + 1
                /\ UNCHANGED <<pc, raised>>
    /\ UNCHANGED <<doc, markdown_blocks, result, inlineVars, call, envVars>>

\* line 381: the root node
ReturnDiv ==
    /\ pc = "loop"
    /\ ix = Len(markdown_blocks)
    /\ IF parent_raises(nodes, "div")
       THEN /\ raised' = "ValueError"
            /\ pc' = "raised"
            /\ UNCHANGED result
       ELSE /\ result' = ParentNode(nodes, "div", <<>>)
            /\ pc' = "returned"
            /\ UNCHANGED raised
    /\ UNCHANGED <<doc, markdown_blocks, ix, nodes, inlineVars, call, envVars>>

Next ==
    \/ Segment
    \/ ConvertBlock
    \/ ReturnDiv

Spec == Init /\ [][Next]_vars

(***************************************************************************)
(* The conversion loop on a single block passed in directly, as the        *)
(* callers of the markdown_*_to_text_node functions may: its lines need    *)
(* not be stripped.                                                        *)
(***************************************************************************)
InitBlock ==
    /\ doc \in LinesOf(ItemLines, MaxItems)
    /\ pc = "loop"
    /\ markdown_blocks = <<doc>>
    /\ ix = 0
    /\ nodes = <<>>
    /\ result = NoResult
    /\ raised = "none"
    /\ InlineIdle
    /\ CallIdle
    /\ EnvIdle

NextBlock ==
    \/ ConvertBlock
    \/ ReturnDiv

SpecBlock == InitBlock /\ [][NextBlock]_vars

(***************************************************************************)
(* The functions called on their own, as their tests call them: call holds *)
(* the name of the function, its arguments and whether it has returned.    *)
(***************************************************************************)
MaxChars == 6
MaxChildren == 2

SplitChars == {"a", "*", "_"}

RECURSIVE Strings(_, _)
\* the strings of 1 to n characters of A
Strings(A, n) ==
    IF n = 1 THEN {<<c>> : c \in A}
    ELSE LET shorter == Strings(A, n - 1)
         IN  shorter \cup {t \o <<c>> : t \in shorter, c \in A}

CallDelimiters == {<<"*">>, <<"*", "*">>, <<"_">>, <<BQ>>}

\* split_nodes_delimiter([TextNode(t, TEXT_TYPE_TEXT)], delimiter, text_type)
SplitDelimiterCalls ==
    [fn : {"split_nodes_delimiter"}, at : {"entry"},
     old_nodes : {<<TextNode(t, TEXT_TYPE_TEXT, None)>> : t \in Strings(SplitChars, MaxChars)},
     delimiter : CallDelimiters,
     text_type : {TEXT_TYPE_BOLD, TEXT_TYPE_ITALIC, TEXT_TYPE_CODE}]

\* the pieces of the texts with adjacent regions that are free of d
ChainPieces(d) ==
    {x \in {<<"a">>, <<"*">>, <<"_">>, <<"a", "b">>} : ~contains(x, d)}

\* P d A d d B d d C d S
Chain(P, A, B, C, S, d) == P \o d \o A \o d \o d \o B \o d \o d \o C \o d \o S

ChainTexts(d) ==
    {Chain(P, A, B, C, S, d) : P \in ChainPieces(d), A \in ChainPieces(d),
                               B \in ChainPieces(d), C \in ChainPieces(d),
                               S \in ChainPieces(d)}

\* split_nodes_delimiter on the texts with adjacent regions
SplitChainCalls ==
    UNION { [fn : {"split_nodes_delimiter"}, at : {"entry"},
             old_nodes : {<<TextNode(t, TEXT_TYPE_TEXT, None)>> : t \in ChainTexts(d)},
             delimiter : {d},
             text_type : {TEXT_TYPE_CODE}] : d \in CallDelimiters }

\* the pieces of the texts handed to split_nodes_link and split_nodes_image
CallTokens ==
    { <<"a">>, <<"!">>, <<"[">>, <<"]", "(">>, <<")">>, <<NL>>,
      <<"[", "a", "]", "(", "u", ")">>,
      <<"[", "a", "]", "(", ")">>,
      <<"!", "[", "a", "]", "(", "u", ")">>,
      <<"!", "[", "]", "(", "u", ")">> }

RECURSIVE TextsOf(_, _)
\* the texts of 1 to n pieces of T
TextsOf(T, n) ==
    IF n = 1 THEN T
    ELSE LET shorter == TextsOf(T, n - 1)
         IN  shorter \cup {t \o k : t \in shorter, k \in T}

\* split_nodes_link([TextNode(t, TEXT_TYPE_TEXT)]) and split_nodes_image of the same
SplitPatternCalls ==
    [fn : {"split_nodes_link", "split_nodes_image"}, at : {"entry"},
     old_nodes : {<<TextNode(t, TEXT_TYPE_TEXT, None)>> : t \in TextsOf(CallTokens, MaxTokens)}]

\* blocks of one line for get_markdown_block_type
MarkerLines ==
    { <<"#", " ", "a">>, <<"#", "#", "#", "#", "#", "#", " ", "a">>,
      <<"#", "#", "#", "#", "#", "#", "#", " ", "a">>,
      <<"#", "a">>, <<"#", "\t", "a">>, <<"#", " ">>,
      <<">", "a">>, <<"*", "a">>, <<"*", "\t", "a">>,
      <<"1", ".", "a">>, <<"1", ".", "\t", "a">>, <<"0", "1", ".", " ", "a">>,
      FENCE \o <<"a">> \o FENCE, FENCE \o <<"a">> }

\* the lines of the blocks of several lines
BlockLines ==
    { <<"#">>, <<"a">>, <<">", " ", "a">>, <<"*", " ", "a">>, <<"-", " ", "a">>,
      <<"1", ".", " ", "a">>, <<"2", ".", " ", "a">>, <<"3", ".", " ", "a">> }

\* get_markdown_block_type(block)
BlockTypeCalls ==
    [fn : {"get_markdown_block_type"}, at : {"entry"},
     block : MarkerLines \cup LinesOf(BlockLines, MaxItems)]

\* the lines of the texts outside fenced code
PlainLines ==
    { <<>>, <<" ">>, <<"\t", " ">>, <<"a">>, <<" ", "a", "\t">>, <<"a", " ", "b">> }

\* get_non_codeblocks(text)
NonCodeblocksCalls ==
    [fn : {"get_non_codeblocks"}, at : {"entry"},
     text : LinesOf(PlainLines, MaxLines + 1)]

\* the nodes given as children and rendered
Leaves ==
    { LeafNode(<<"a">>, NoTag, <<>>),
      LeafNode(<<"a">>, "", <<>>),
      LeafNode(<<>>, "b", <<>>),
      LeafNode(<<"a">>, "b", <<>>),
      LeafNode(<<"a">>, "img", <<>>),
      LeafNode(<<"a">>, "a", <<<<"href", <<"u">>>>>>),
      LeafNode(<<"a">>, "a", <<<<"href", <<"u">>>>, <<"id", <<"x">>>>>>),
      LeafNode(<<"a">>, "a", <<<<"id", <<"x">>>>, <<"href", <<"u">>>>>>),
      LeafNode(<<>>, "img", <<<<"src", <<"u">>>>, <<"alt", <<"a">>>>>>),
      LeafNode(<<"a">>, "img", <<<<"src", <<"u">>>>>>) }

\* the attributes given to a ParentNode
ParentProps == {<<>>, <<<<"id", <<"x">>>>>>, <<<<"id", <<"x">>>>, <<"class", <<"c">>>>>>}

RECURSIVE ListsOf(_, _)
\* the lists of 1 to n members of S
ListsOf(S, n) ==
    IF n = 1 THEN {<<x>> : x \in S}
    ELSE LET shorter == ListsOf(S, n - 1)
         IN  shorter \cup {Append(l, x) : l \in shorter, x \in S}

\* ParentNode(children, tag, props)
ParentNodeCalls ==
    [fn : {"ParentNode"}, at : {"entry"},
     children : {NoChildren, <<>>} \cup ListsOf(Leaves, MaxChildren),
     tag : {NoTag, "", "p"},
     props : ParentProps]

\* the children of the nested parents: leaves and parents of leaves
InnerNodes ==
    { LeafNode(<<"a">>, NoTag, <<>>),
      LeafNode(<<"a">>, "b", <<>>),
      LeafNode(<<>>, "img", <<<<"src", <<"u">>>>, <<"alt", <<"a">>>>>>) }
    \cup { ParentNode(<<l>>, "li", pr) :
              l \in { LeafNode(<<"a">>, NoTag, <<>>),
                      LeafNode(<<"a">>, "img", <<<<"src", <<"u">>>>>>) },
              pr \in {<<>>, <<<<"id", <<"x">>>>>>} }

\* the trees rendered: leaves, parents of leaves, and parents of those
Trees ==
    LET nested == { ParentNode(c, "ul", pr) :
                       c \in ListsOf(InnerNodes, MaxChildren), pr \in ParentProps }
    IN  Leaves
        \cup { ParentNode(c, "p", pr) :
                  c \in ListsOf(Leaves, MaxChildren), pr \in ParentProps }
        \cup nested
        \cup { ParentNode(<<x>>, "div", <<>>) : x \in nested }

\* node.to_html()
ToHtmlCalls == [fn : {"to_html"}, at : {"entry"}, node : Trees]

\* the lines of the sources given to extract_title
TitleLines ==
    { <<"#", " ", "a">>, <<"#", " ", "b">>, <<"#", "\t", "a">>, <<"#", " ", "\t", "a">>,
      <<"#", "#", " ", "a">>, <<"#", "a">>, <<"#", " ">>, <<"#", " ", " ">>,
      <<"#", " ", " ", "b", " ">>, <<"a">> }

\* extract_title(text)
ExtractTitleCalls ==
    [fn : {"extract_title"}, at : {"entry"}, text : LinesOf(TitleLines, MaxLines)]

\* the lines of the texts given to get_codeblock_indices
FenceLines ==
    { FENCE, FENCE \o <<"a">>, FENCE \o <<BQ>>, <<" ">> \o FENCE, <<"a">>, <<>> }

\* get_codeblock_indices(text)
CodeblockIndicesCalls ==
    [fn : {"get_codeblock_indices"}, at : {"entry"},
     text : LinesOf(FenceLines, MaxLines + 1)]

InitCall ==
    /\ call \in SplitDelimiterCalls \cup SplitChainCalls \cup SplitPatternCalls
                 \cup BlockTypeCalls
                 \cup NonCodeblocksCalls \cup ParentNodeCalls
                 \cup ToHtmlCalls \cup ExtractTitleCalls
                 \cup CodeblockIndicesCalls
    /\ result = NoResult
    /\ raised = "none"
    /\ InlineIdle
    /\ DocIdle
    /\ EnvIdle

\* the call returns r.list, or raises r.err
Return(r) ==
    /\ IF r.err # "none"
       THEN /\ raised' = r.err
            /\ call' = [call EXCEPT !.at = "raised"]
            /\ UNCHANGED result
       ELSE /\ result' = r.list
            /\ call' = [call EXCEPT !.at = "returned"]
            /\ UNCHANGED raised
    /\ UNCHANGED <<inlineVars, docVars, envVars>>

CallSplitNodesDelimiter ==
    /\ call.fn = "split_nodes_delimiter"
    /\ call.at = "entry"
    /\ Return(split_nodes_delimiter(call.old_nodes, call.delimiter, call.text_type))

CallSplitNodesLink ==
    /\ call.fn = "split_nodes_link"
    /\ call.at = "entry"
    /\ Return(split_nodes_link(call.old_nodes))

CallSplitNodesImage ==
    /\ call.fn = "split_nodes_image"
    /\ call.at = "entry"
    /\ Return(split_nodes_image(call.old_nodes))

CallGetMarkdownBlockType ==
    /\ call.fn = "get_markdown_block_type"
    /\ call.at = "entry"
    /\ Return(Ok(get_markdown_block_type(call.block)))

CallGetNonCodeblocks ==
    /\ call.fn = "get_non_codeblocks"
    /\ call.at = "entry"
    /\ Return(Ok(get_non_codeblocks(call.text)))

CallParentNode ==
    /\ call.fn = "ParentNode"
    /\ call.at = "entry"
    /\ IF parent_raises(call.children, call.tag)
       THEN Return(Raise("ValueError"))
       ELSE Return(Ok(ParentNode(call.children, call.tag, call.props)))

CallToHtml ==
    /\ call.fn = "to_html"
    /\ call.at = "entry"
    /\ Return(to_html(call.node))

CallExtractTitle ==
    /\ call.fn = "extract_title"
    /\ call.at = "entry"
    /\ Return(extract_title(call.text))

CallGetCodeblockIndices ==
    /\ call.fn = "get_codeblock_indices"
    /\ call.at = "entry"
    /\ Return(Ok(get_codeblock_indices(call.text)))

NextCall ==
    \/ CallSplitNodesDelimiter
    \/ CallSplitNodesLink
    \/ CallSplitNodesImage
    \/ CallGetMarkdownBlockType
    \/ CallGetNonCodeblocks
    \/ CallParentNode
    \/ CallToHtml
    \/ CallExtractTitle
    \/ CallGetCodeblockIndices

SpecCall == InitCall /\ [][NextCall]_vars

(***************************************************************************)
(* generate_page (src/core/generate.py), one action per statement. The     *)
(* disk holds the source file, the template file, and the destination:     *)
(* whether its directory exists and what the file holds.                   *)
(***************************************************************************)
NoFile == <<"NoFile">>

TITLE_PLACEHOLDER == <<"{", "{", " ", "T", "i", "t", "l", "e", " ", "}", "}">>
CONTENT_PLACEHOLDER == <<"{", "{", " ", "C", "o", "n", "t", "e", "n", "t", " ", "}", "}">>

\* the markdown sources on disk
PageSources ==
    { <<"#", " ", "a">>,
      <<"#", " ", "a", NL, NL, "b">>,
      <<"#", " ", "a", NL, NL, "#", " ", "b">>,
      <<"a">>,
      <<"#", "#", " ", "a">>,
      <<>>,
      <<" ">>,
      <<"#", " ", "a", NL, NL, "*", "*", "b">>,
      <<"#", " ">> \o CONTENT_PLACEHOLDER,
      <<"#", " ">> \o TITLE_PLACEHOLDER,
      <<"#", " ", "a", NL, NL>> \o TITLE_PLACEHOLDER }

\* the templates on disk
PageTemplates ==
    { TITLE_PLACEHOLDER \o <<"|">> \o CONTENT_PLACEHOLDER,
      CONTENT_PLACEHOLDER \o TITLE_PLACEHOLDER \o TITLE_PLACEHOLDER,
      <<"x">>,
      <<"{", "{", "T", "i", "t", "l", "e", "}", "}">>,
      <<>> }

\* the disk before the call: a destination file implies its directory
PageDisks ==
    { d \in [src : PageSources \cup {NoFile}, templ : PageTemplates \cup {NoFile},
             dest_dir : BOOLEAN, dest : {NoFile, <<"o">>}] :
         d.dest # NoFile => d.dest_dir }

InitPage ==
    /\ disk \in PageDisks
    /\ call = [fn |-> "generate_page", at |-> "read", src |-> None, templ |-> None,
               html_content |-> None, title |-> None]
    /\ server = [pc |-> "off"]
    /\ result = NoResult
    /\ raised = "none"
    /\ InlineIdle
    /\ DocIdle

\* the order of the statements with os.makedirs ahead of the conversion
page_next_dirs_first(at) ==
    CASE at = "read" -> "makedirs"
      [] at = "makedirs" -> "convert"
      [] at = "convert" -> "title"
      [] at = "title" -> "fill"
      [] at = "fill" -> "write"
      [] at = "write" -> "returned"

\* the statement that follows the statement at
page_next(at) ==
    CASE at = "read" -> "convert"
      [] at = "convert" -> "title"
      [] at = "title" -> "fill"
      [] at = "fill" -> "makedirs"
      [] at = "makedirs" -> "write"
      [] at = "write" -> "returned"

\* an exception leaves generate_page
PageRaise(e) ==
    /\ raised' = e
    /\ call' = [call EXCEPT !.at = "raised"]
    /\ UNCHANGED <<result, disk>>

\* lines 38-51: both files must exist, and are read
PageRead ==
    /\ call.fn = "generate_page"
    /\ call.at = "read"
    /\ IF disk.src = NoFile \/ disk.templ = NoFile
       THEN PageRaise("FileNotFoundError")
       ELSE /\ call' = [call EXCEPT !.src = disk.src, !.templ = disk.templ,
                                    !.at = page_next("read")]
            /\ UNCHANGED <<result, raised, disk>>
    /\ UNCHANGED <<inlineVars, docVars, server>>

\* markdown_to_html_node(src).to_html()
html_of(r) == IF r.err # "none" THEN Raise(r.err) ELSE to_html(r.node)

\* line 53
PageConvert ==
    /\ call.fn = "generate_page"
    /\ call.at = "convert"
    /\ \E r \in {html_of(markdown_to_html_node(call.src))} :
           IF r.err # "none"
           THEN PageRaise(r.err)
           ELSE /\ call' = [call EXCEPT !.html_content = r.list,
                                        !.at = page_next("convert")]
                /\ UNCHANGED <<result, raised, disk>>
    /\ UNCHANGED <<inlineVars, docVars, server>>

\* line 54
PageTitle ==
    /\ call.fn = "generate_page"
    /\ call.at = "title"
    /\ \E r \in {extract_title(call.src)} :
           IF r.err # "none"
           THEN PageRaise(r.err)
           ELSE /\ call' = [call EXCEPT !.title = r.list, !.at = page_next("title")]
                /\ UNCHANGED <<result, raised, disk>>
    /\ UNCHANGED <<inlineVars, docVars, server>>

\* lines 56-57: the two replace() calls, one after the other
fill_template(templ, title, html_content) ==
    replace(replace(templ, TITLE_PLACEHOLDER, title), CONTENT_PLACEHOLDER, html_content)

PageFill ==
    /\ call.fn = "generate_page"
    /\ call.at = "fill"
    /\ call' = [call EXCEPT !.templ = fill_template(call.templ, call.title,
                                                    call.html_content),
                            !.at = page_next("fill")]
    /\ UNCHANGED <<result, raised, disk, inlineVars, docVars, server>>

\* lines 59-60
PageMakedirs ==
    /\ call.fn = "generate_page"
    /\ call.at = "makedirs"
    /\ disk' = [disk EXCEPT !.dest_dir = TRUE]
    /\ call' = [call EXCEPT !.at = page_next("makedirs")]
    /\ UNCHANGED <<result, raised, inlineVars, docVars, server>>

\* lines 62-63: the file is written and generate_page returns None
PageWrite ==
    /\ call.fn = "generate_page"
    /\ call.at = "write"
    /\ disk' = [disk EXCEPT !.dest = call.templ]
    /\ call' = [call EXCEPT !.at = page_next("write")]
    /\ result' = None
    /\ UNCHANGED <<raised, inlineVars, docVars, server>>

NextPage ==
    \/ PageRead
    \/ PageConvert
    \/ PageTitle
    \/ PageFill
    \/ PageMakedirs
    \/ PageWrite

SpecPage == InitPage /\ [][NextPage]_vars

(***************************************************************************)
(* The development server of server.py: run takes a snapshot of the        *)
(* tracked files, builds and serves; do_GET answers /check_update.  The    *)
(* tracked files change on disk at any moment.                             *)
(***************************************************************************)
MaxFiles == 2
MaxStamps == 2

Files == 1..MaxFiles
Stamps == 1..MaxStamps

\* what dict.get gives for a missing key
NoStamp == 0

\* the tracked files on disk, each with its modification time
FileTrees == UNION {[S -> Stamps] : S \in SUBSET Files}

NoResponse == [status |-> 0, body |-> ""]

\* lines 23-42: the tracked files below root_path and their timestamps
get_updated_tracked_lists(root) ==
    [files |-> DOMAIN root.mtime,
     filestamps |-> [f \in DOMAIN root.mtime |-> root.mtime[f]]]

\* a comparison that finds no added and no deleted file
compare_files_none(tracked_files, u_tracked_files) ==
    [added_files |-> {}, deleted_files |-> {}]

\* lines 45-61
compare_files(tracked_files, u_tracked_files) ==
    [added_files |-> u_tracked_files \ tracked_files,
     deleted_files |-> tracked_files \ u_tracked_files]

\* dict.get(file)
get(d, file) == IF file \in DOMAIN d THEN d[file] ELSE NoStamp

\* a comparison that finds no modified file
compare_timestamps_none(tracked_filestamps, u_tracked_filestamps) == {}

\* lines 64-83
compare_timestamps(tracked_filestamps, u_tracked_filestamps) ==
    {file \in DOMAIN tracked_filestamps :
        tracked_filestamps[file] # get(u_tracked_filestamps, file)}

\* lines 104-117, on the lists read at line 102
reload_needed(tracked_files, tracked_filestamps, u) ==
    IF compare_files(tracked_files, u.files).added_files # {}
       \/ compare_files(tracked_files, u.files).deleted_files # {}
    THEN TRUE
    ELSE compare_timestamps(tracked_filestamps, u.filestamps) # {}

\* lines 86-117
is_needed_to_reload(root, tracked_files, tracked_filestamps) ==
    reload_needed(tracked_files, tracked_filestamps, get_updated_tracked_lists(root))

InitServer ==
    /\ disk \in [kind : {"tree"}, mtime : FileTrees]
    /\ server = [pc |-> "off", tracked_files |-> {}, tracked_filestamps |-> <<>>,
                 reload |-> FALSE, builds |-> 0, response |-> NoResponse,
                 stale |-> FALSE]
    /\ result = NoResult
    /\ raised = "none"
    /\ InlineIdle
    /\ DocIdle
    /\ CallIdle

serverOnly == <<text, stage, text_nodes, doc, pc, markdown_blocks, ix, nodes, result,
                raised, call>>

\* a tracked file is added, deleted or gets another modification time
FileChange ==
    /\ disk.kind = "tree"
    /\ \E m \in FileTrees :
          /\ \E f \in Files :
                /\ get(m, f) # get(disk.mtime, f)
                /\ \A g \in Files \ {f} : get(m, g) = get(disk.mtime, g)
          /\ disk' = [disk EXCEPT !.mtime = m]
    /\ server' = [server EXCEPT !.stale = TRUE]
    /\ UNCHANGED serverOnly

\* line 252: the initial snapshot
RunSnapshot ==
    /\ server.pc = "off"
    /\ disk.kind = "tree"
    /\ server' = [server EXCEPT
                     !.tracked_files = get_updated_tracked_lists(disk).files,
                     !.tracked_filestamps = get_updated_tracked_lists(disk).filestamps,
                     !.pc = "run_build"]
    /\ UNCHANGED <<disk, serverOnly>>

\* line 255: build_handler() is entered
RunBuildStart ==
    /\ server.pc = "run_build"
    /\ server' = [server EXCEPT !.pc = "run_building", !.stale = FALSE]
    /\ UNCHANGED <<disk, serverOnly>>

\* lines 255-275: build_handler() returns and the server starts serving
RunServe ==
    /\ server.pc = "run_building"
    /\ server' = [server EXCEPT !.pc = "serving"]
    /\ UNCHANGED <<disk, serverOnly>>

\* lines 192-194: a GET /check_update is taken up
GetCheckUpdate ==
    /\ server.pc = "serving"
    /\ server' = [server EXCEPT !.pc = "check", !.reload = FALSE, !.builds = 0,
                                !.response = NoResponse]
    /\ UNCHANGED <<disk, serverOnly>>

\* lines 212-224: any other GET is redirected or served from public_dir
GetOther ==
    /\ server.pc = "serving"
    /\ \E status \in {200, 301, 404} :
          server' = [server EXCEPT !.response = [status |-> status, body |-> "file"],
                                   !.reload = FALSE, !.builds = 0]
    /\ UNCHANGED <<disk, serverOnly>>

\* lines 196-200: is_needed_to_reload reads the disk
CheckNeeded ==
    /\ server.pc = "check"
    /\ \E reload \in {is_needed_to_reload(disk, server.tracked_files,
                                          server.tracked_filestamps)} :
          server' = [server EXCEPT !.reload = reload,
                                   !.pc = IF reload THEN "refresh" ELSE "respond"]
    /\ UNCHANGED <<disk, serverOnly>>

\* lines 202-204: the stored snapshot is read again from the disk
Refresh ==
    /\ server.pc = "refresh"
    /\ server' = [server EXCEPT
                     !.tracked_files = get_updated_tracked_lists(disk).files,
                     !.tracked_filestamps = get_updated_tracked_lists(disk).filestamps,
                     !.pc = "build"]
    /\ UNCHANGED <<disk, serverOnly>>

\* line 205: build_handler() is entered
BuildStart ==
    /\ server.pc = "build"
    /\ server' = [server EXCEPT !.pc = "building", !.builds = @ + 1, !.stale = FALSE]
    /\ UNCHANGED <<disk, serverOnly>>

\* line 205: build_handler() returns
BuildEnd ==
    /\ server.pc = "building"
    /\ server' = [server EXCEPT !.pc = "respond"]
    /\ UNCHANGED <<disk, serverOnly>>

\* lines 206-211: 200 with the body "update", or 204
Respond ==
    /\ server.pc = "respond"
    /\ server' = [server EXCEPT
                     !.response = IF server.reload
                                  THEN [status |-> 200, body |-> "update"]
                                  ELSE [status |-> 204, body |-> ""],
                     !.pc = "serving"]
    /\ UNCHANGED <<disk, serverOnly>>

\* the steps of run and of the request handler
ServerStep ==
    \/ RunSnapshot
    \/ RunBuildStart
    \/ RunServe
    \/ CheckNeeded
    \/ Refresh
    \/ BuildStart
    \/ BuildEnd
    \/ Respond

NextServer ==
    \/ FileChange
    \/ GetCheckUpdate
    \/ GetOther
    \/ ServerStep

SpecServer == InitServer /\ [][NextServer]_vars

\* serve_forever handles one request at a time and to its end, and the page
\* in the browser keeps polling /check_update
SpecServerFair ==
    /\ InitServer
    /\ [][NextServer]_vars
    /\ WF_vars(ServerStep)
    /\ WF_vars(GetCheckUpdate)

(***************************************************************************)
(* Properties of the block segmenter.                                      *)
(***************************************************************************)
\* a line that starts with three backquotes
IsFenceLine(line) == startswith(line, FENCE)

RECURSIVE Interleave(_, _, _)
\* The blocks expected of the lines from n on, read line by line. A line that
\* starts with three backquotes and has a later such line opens a fenced
\* region, which runs to the three backquotes of the next such line and is
\* one block, as written; what follows them on that line is text again. The
\* lines of text met since the last region (outside) are split on blank lines.
Interleave(lines, n, outside) ==
    IF n > Len(lines) THEN get_non_codeblocks(join(outside, <<NL>>))
    ELSE LET closing == {m \in (n + 1)..Len(lines) : IsFenceLine(lines[m])}
         IN  IF IsFenceLine(lines[n]) /\ closing # {}
             THEN LET m == Min(closing)
                  IN  get_non_codeblocks(join(outside, <<NL>>))
                      \o <<join(SubSeq(lines, n, m - 1), <<NL>>) \o <<NL>> \o FENCE>>
                      \o Interleave(lines, m + 1, <<SubSeq(lines[m], 4, Len(lines[m]))>>)
             ELSE Interleave(lines, n + 1, Append(outside, lines[n]))

SplitStages == {"image", "link", "bold", "italic", "code"}

\* C2: every stage of text_line_to_text_nodes re-splits only Plain spans: a
\* span that is Bold, Italic, Code, Link or Image when a stage starts is in the
\* output of that stage unchanged (same content, kind and target).
C2_TypedSpansKept ==
    [][(stage \in SplitStages /\ stage' # "raised")
          => \A n \in 1..Len(text_nodes) :
                text_nodes[n].text_type # TEXT_TYPE_TEXT
                   => \E m \in 1..Len(text_nodes') : text_nodes'[m] = text_nodes[n]]_vars

DELIMITERS == {BOLD_DELIMITER, ITALIC_DELIMITER, CODE_DELIMITER}

\* C3: a text in which one of the inline delimiters occurs an odd
\* number of times makes text_line_to_text_nodes fail with ValueError and
\* return no spans.
C3_OddDelimiterValueError ==
    (\E d \in DELIMITERS : count(text, d) % 2 = 1)
       => /\ stage \notin {"return", "returned"}
          /\ result = NoResult
          /\ stage = "raised" => raised = "ValueError"

\* P*X*S: two '*' with text between them, and nothing else but plain letters
StarForm(s) ==
    /\ count(s, <<"*">>) = 2
    /\ ~contains(s, <<"*", "*">>)
    /\ \A n \in 1..Len(s) : s[n] \in {"a", "*"}

\* [Plain P (if non-empty), Italic X, Plain S (if non-empty)] for s = P*X*S
StarSpans(s) ==
    LET i == find(s, <<"*">>, 1)
        j == find(s, <<"*">>, i + 1)
        P == SubSeq(s, 1, i - 1)
        X == SubSeq(s, i + 1, j - 1)
        S == SubSeq(s, j + 1, Len(s))
    IN  (IF P # <<>> THEN <<TextNode(P, TEXT_TYPE_TEXT, None)>> ELSE <<>>)
        \o <<TextNode(X, TEXT_TYPE_ITALIC, None)>>
        \o (IF S # <<>> THEN <<TextNode(S, TEXT_TYPE_TEXT, None)>> ELSE <<>>)

\* C10: text_line_to_text_nodes takes a pair of single '*' as the italic
\* marker: for a text P*X*S it returns [Plain P, Italic X, Plain S], and the
\* text does not remain one unsplit Plain span.
C10_StarIsItalic ==
    (stage = "returned" /\ StarForm(text)) => result = StarSpans(text)

(***************************************************************************)
(* Properties of the block-to-node converter. Pass i of the loop converts  *)
(* markdown_blocks[i] into nodes[i].                                       *)
(***************************************************************************)
\* the kind of block that a node with this tag stands for
KindOfTag(tag) ==
    CASE tag = "p" -> BLOCK_TYPE_PARAGRAPH
      [] tag = "pre" -> BLOCK_TYPE_CODE
      [] tag = "blockquote" -> BLOCK_TYPE_QUOTE
      [] tag = "ul" -> BLOCK_TYPE_UNORD_LIST
      [] tag = "ol" -> BLOCK_TYPE_ORD_LIST
      [] tag \in {"h" \o ToString(n) : n \in 1..9} -> BLOCK_TYPE_HEADING
      [] OTHER -> "none"

\* C4: for a document that converts, markdown_to_html_node returns a Parent
\* with tag div whose children are, in source order, one node for each block
\* of markdown_to_blocks: none dropped, none added.
C4_DivChildPerBlock ==
    pc = "returned"
       => /\ result.class = "ParentNode"
          /\ result.tag = "div"
          /\ Len(result.children) = Len(markdown_to_blocks(doc))
          /\ \A i \in 1..Len(result.children) :
                /\ KindOfTag(result.children[i].tag)
                      = get_markdown_block_type(markdown_to_blocks(doc)[i])
                /\ result.children[i] = block_to_node(markdown_to_blocks(doc)[i]).node

\* a document of a code block followed by a paragraph converted
C4_Witness ==
    /\ pc = "returned"
    /\ Len(result.children) >= 2
    /\ result.children[1].tag = "pre"
    /\ result.children[2].tag = "p"

\* C5: for a Heading block the converter uses only the leading marker: the tag
\* is hN, N the number of leading '#' (1 to 6), and the text parsed is the
\* block without those N '#' and the one space after them, every later
\* character kept.
C5_HeadingLeadingMarker ==
    \A i \in 1..Len(nodes) :
       get_markdown_block_type(markdown_blocks[i]) = BLOCK_TYPE_HEADING
          => LET N == RunLength(markdown_blocks[i], 1, {"#"})
                 rest == SubSeq(markdown_blocks[i], N + 2, Len(markdown_blocks[i]))
             IN  /\ N \in 1..6
                 /\ nodes[i].tag = "h" \o ToString(N)
                 /\ text_line_to_text_nodes(rest).err = "none"
                 /\ nodes[i].children = html_nodes(text_line_to_text_nodes(rest).list)

\* C6: for a Code block the converter emits one Leaf with tag pre whose value
\* is the block without its first three and its last three characters; the
\* inline parser is not run, so the content is kept as written and a code
\* block never makes the conversion fail.
C6_CodeVerbatim ==
    /\ \A i \in 1..Len(nodes) :
          get_markdown_block_type(markdown_blocks[i]) = BLOCK_TYPE_CODE
             => nodes[i] = [class |-> "LeafNode", tag |-> "pre",
                            value |-> SubSeq(markdown_blocks[i], 4,
                                             Len(markdown_blocks[i]) - 3),
                            children |-> <<>>, props |-> <<>>]
    /\ (pc = "raised" /\ ix < Len(markdown_blocks))
          => get_markdown_block_type(markdown_blocks[ix + 1]) # BLOCK_TYPE_CODE

\* a code block whose content holds a lone italic marker became a pre Leaf
C6_Witness ==
    \E i \in 1..Len(nodes) :
       /\ nodes[i].tag = "pre"
       /\ count(nodes[i].value, ITALIC_DELIMITER) = 1
       /\ markdown_blocks[i] = FENCE \o nodes[i].value \o FENCE

\* line without the leading '> ', or the bare '>', of a quote
unquoted(line) ==
    IF startswith(line, <<">", " ">>) THEN SubSeq(line, 3, Len(line))
    ELSE IF startswith(line, <<">">>) THEN SubSeq(line, 2, Len(line))
    ELSE line

\* the lines of a quote block without their markers, joined by newlines
QuoteText(block) ==
    LET lines == split(block, <<NL>>)
    IN  join([n \in 1..Len(lines) |-> unquoted(lines[n])], <<NL>>)

\* C8: for a Quote block of k lines the text parsed has k lines, line i being
\* line i of the block without its leading '> ' (or bare '>'); the inline
\* parser runs once over the joined text and the spans are wrapped in one
\* Parent with tag blockquote.
C8_QuoteLines ==
    \A i \in 1..Len(nodes) :
       (/\ get_markdown_block_type(markdown_blocks[i]) = BLOCK_TYPE_QUOTE
        /\ text_line_to_text_nodes(QuoteText(markdown_blocks[i])).err = "none")
          => nodes[i] = ParentNode(
                 html_nodes(text_line_to_text_nodes(QuoteText(markdown_blocks[i])).list),
                 "blockquote", <<>>)

\* C9: a Quote block whose content is nothing once the markers are removed
\* fails the conversion: no blockquote node is produced for it.
C9_EmptyQuoteFails ==
    \A i \in 1..Len(nodes) :
       get_markdown_block_type(markdown_blocks[i]) = BLOCK_TYPE_QUOTE
          => strip(QuoteText(markdown_blocks[i])) # <<>>

\* line i of a list block without its marker: one of '*' and '-', or the
\* digits and the '.', and the one space after it
ItemText(line, type) ==
    IF type = BLOCK_TYPE_UNORD_LIST THEN SubSeq(line, 3, Len(line))
    ELSE SubSeq(line, RunLength(line, 1, Digits) + 3, Len(line))

\* C7: a list block of k lines converts to one Parent with tag ul or ol that
\* holds k li Parents in line order, the i-th holding the spans of line i
\* without its marker, parsed on its own; if a line is empty once its marker
\* is removed the conversion fails and no node is emitted.
C7_ListItems ==
    LET type == get_markdown_block_type(doc)
        lines == split(doc, <<NL>>)
        spans == [n \in 1..Len(lines) |->
                     text_line_to_text_nodes(ItemText(lines[n], type))]
    IN  type \in {BLOCK_TYPE_UNORD_LIST, BLOCK_TYPE_ORD_LIST}
           => /\ (\E n \in 1..Len(lines) : ItemText(lines[n], type) = <<>>)
                    => (nodes = <<>> /\ pc \in {"loop", "raised"})
              /\ nodes # <<>>
                    => /\ \A n \in 1..Len(lines) : spans[n].err = "none"
                       /\ nodes[1] =
                             ParentNode([n \in 1..Len(lines) |->
                                            ParentNode(html_nodes(spans[n].list), "li", <<>>)],
                                        IF type = BLOCK_TYPE_UNORD_LIST
                                        THEN "ul" ELSE "ol", <<>>)
              /\ pc = "raised"
                    => \E n \in 1..Len(lines) : spans[n].err # "none"

\* a list of two items converted, the second item holding an italic span
C7_Witness ==
    /\ nodes # <<>>
    /\ nodes[1].tag \in {"ul", "ol"}
    /\ Len(nodes[1].children) = 2
    /\ nodes[1].children[2].tag = "li"
    /\ \E c \in 1..Len(nodes[1].children[2].children) :
           nodes[1].children[2].children[c].tag = "i"

(***************************************************************************)
(* Properties of the functions called on their own.                        *)
(***************************************************************************)
\* the text of the Plain span of the call is d X d, X non-empty and free of d
WholeSpanDelimited ==
    LET d == call.delimiter
        t == call.old_nodes[1].text
    IN  /\ call.fn = "split_nodes_delimiter"
        /\ Len(t) > 2 * Len(d)
        /\ startswith(t, d)
        /\ endswith(t, d)
        /\ ~contains(slice(t, Len(d), Len(d)), d)

\* the one span of the requested kind with content X
DelimitedSpan ==
    <<TextNode(slice(call.old_nodes[1].text, Len(call.delimiter), Len(call.delimiter)),
               call.text_type, None)>>

\* C11: split_nodes_delimiter with delimiter d on a Plain span whose whole
\* text is d X d, X non-empty and free of d, returns exactly one span of the
\* requested kind with content X, and not the Plain span unchanged.
C11_WholeSpanDelimited ==
    (WholeSpanDelimited /\ call.at # "entry")
       => (call.at = "returned" /\ result = DelimitedSpan)

\* d closes the span only at its end: it does not stand earlier in X d, as
\* it does when X ends with the first character of a two-character d
ClosesAtEnd ==
    LET d == call.delimiter
        t == call.old_nodes[1].text
    IN  find(SubSeq(t, Len(d) + 1, Len(t)), d, 1) = Len(t) - 2 * Len(d) + 1

\* C11, amended: ... whose whole text is d X d, X non-empty and free of d,
\* and in which d does not occur in X d before its end, returns exactly one
\* span of the requested kind with content X, and not the Plain span.
C11_WholeSpanDelimitedClosing ==
    (WholeSpanDelimited /\ ClosesAtEnd /\ call.at # "entry")
       => (call.at = "returned" /\ result = DelimitedSpan)

\* a span "**" X "**" with a '*' in X came back as one span of the kind asked
C11_Witness ==
    /\ WholeSpanDelimited
    /\ ClosesAtEnd
    /\ call.delimiter = <<"*", "*">>
    /\ contains(slice(call.old_nodes[1].text, 2, 2), <<"*">>)
    /\ call.at = "returned"
    /\ result = DelimitedSpan

\* A complete pattern of s: '[' at o (after a '!' when p = 1), "](" at j and
\* ')' at k, with no newline in the text between them
IsPattern(s, o, j, k, p) ==
    /\ s[o] = "["
    /\ p = 1 => (o > 1 /\ s[o - 1] = "!")
    /\ s[j] = "]"
    /\ s[j + 1] = "("
    /\ s[k] = ")"
    /\ \A n \in (o + 1)..(j - 1) \cup (j + 2)..(k - 1) : s[n] # NL

Patterns(s, p) ==
    {x \in (1..Len(s)) \X (1..Len(s)) \X (1..Len(s)) :
        x[1] < x[2] /\ x[2] + 1 < x[3] /\ IsPattern(s, x[1], x[2], x[3], p)}

\* the first complete pattern of s: the leftmost, with the shortest text and
\* then the shortest target
FirstPattern(s, p) ==
    CHOOSE x \in Patterns(s, p) :
        \A y \in Patterns(s, p) :
            \/ x[1] < y[1]
            \/ x[1] = y[1] /\ x[2] < y[2]
            \/ x[1] = y[1] /\ x[2] = y[2] /\ x[3] <= y[3]

RECURSIVE Remaining(_, _)
\* the text left of s once its complete patterns are consumed, left to right
Remaining(s, p) ==
    IF Patterns(s, p) = {} THEN s
    ELSE Remaining(SubSeq(s, FirstPattern(s, p)[3] + 1, Len(s)), p)

RECURSIVE NoEmptyText(_, _)
\* none of the patterns consumed from s has an empty text between '[' and ']'
NoEmptyText(s, p) ==
    \/ Patterns(s, p) = {}
    \/ /\ FirstPattern(s, p)[2] > FirstPattern(s, p)[1] + 1
       /\ NoEmptyText(SubSeq(s, FirstPattern(s, p)[3] + 1, Len(s)), p)

\* C12: split_nodes_link fails with ValueError whenever the text of a Plain
\* span, or the text left after the links consumed from it, holds a '[' but
\* no complete [text](url); a span with no '[' is returned unchanged.
C12_LinkFailsClosed ==
    (call.fn = "split_nodes_link" /\ call.at # "entry")
       => /\ contains(Remaining(call.old_nodes[1].text, 0), <<"[">>)
                => (call.at = "raised" /\ raised = "ValueError")
          /\ ~contains(call.old_nodes[1].text, <<"[">>)
                => (call.at = "returned" /\ result = call.old_nodes)

\* a link was consumed and the text left after it, with a '[' and no link,
\* made the call fail
C12_Witness ==
    /\ call.fn = "split_nodes_link"
    /\ call.at = "raised"
    /\ NoEmptyText(call.old_nodes[1].text, 0)
    /\ Remaining(call.old_nodes[1].text, 0) # call.old_nodes[1].text
    /\ contains(Remaining(call.old_nodes[1].text, 0), <<"[">>)

\* the text left holds a '!' and no complete image
ImageLeftOpen ==
    /\ call.fn = "split_nodes_image"
    /\ call.at # "entry"
    /\ contains(Remaining(call.old_nodes[1].text, 1), <<"!">>)

\* the call returned, the text left being its last span, Plain and unchanged
LeftAsPlain ==
    /\ call.at = "returned"
    /\ result[Len(result)]
          = TextNode(Remaining(call.old_nodes[1].text, 1), TEXT_TYPE_TEXT, None)

\* C13: split_nodes_image is fail-open: when the text of a Plain span, or the
\* text left after the images consumed from it, holds a '!' but no complete
\* ![alt](url), that text is emitted as a Plain span unchanged and no error
\* is raised.
C13_ImageFailsOpen == ImageLeftOpen => LeftAsPlain

\* C13, amended: ... or the text left after the images consumed from it, each
\* of them with a non-empty alt, holds a '!' but no complete ![alt](url),
\* that text is emitted as a Plain span unchanged and no error is raised.
C13_ImageFailsOpenAfterAlts ==
    (ImageLeftOpen /\ NoEmptyText(call.old_nodes[1].text, 1)) => LeftAsPlain

\* an image was consumed and the text left after it, with a '!' and no image,
\* came back as the last Plain span
C13_Witness ==
    /\ ImageLeftOpen
    /\ Remaining(call.old_nodes[1].text, 1) # call.old_nodes[1].text
    /\ LeftAsPlain

\* the span carries a target exactly when it is a Link or an Image
TargetIffLinkOrImage(span) ==
    span.url # None <=> span.text_type \in {TEXT_TYPE_LINK, TEXT_TYPE_IMAGE}

\* C14: every span returned by text_line_to_text_nodes carries a target (url)
\* if and only if its kind is Link or Image, for every input on which the
\* parser succeeds; so do the spans between the stages.
C14_TargetIffLinkOrImage ==
    /\ stage = "returned" => \A n \in 1..Len(result) : TargetIffLinkOrImage(result[n])
    /\ \A n \in 1..Len(text_nodes) : TargetIffLinkOrImage(text_nodes[n])

\* the parser returned a Link with its target, an Image with its own, and a
\* span of another kind without one
C14_Witness ==
    /\ stage = "returned"
    /\ \E n \in 1..Len(result) : result[n].text_type = TEXT_TYPE_LINK /\ result[n].url # None
    /\ \E n \in 1..Len(result) : result[n].text_type = TEXT_TYPE_IMAGE /\ result[n].url # None
    /\ \E n \in 1..Len(result) :
           result[n].text_type \notin {TEXT_TYPE_LINK, TEXT_TYPE_IMAGE} /\ result[n].url = None

\* the block begins with 1 to 6 '#' followed by a space
HeadingMarker(block) ==
    LET N == RunLength(block, 1, {"#"})
    IN  N >= 1 /\ N <= 6 /\ N < Len(block) /\ block[N + 1] = " "

BlockTypeReturned ==
    call.fn = "get_markdown_block_type" /\ call.at = "returned"

\* C15: get_markdown_block_type returns Heading exactly for the blocks that
\* begin with 1 to 6 '#' followed by a space; a block beginning with seven '#',
\* or with '#' not followed by a space, is classified Paragraph.
C15_HeadingMarker ==
    BlockTypeReturned =>
        /\ result = BLOCK_TYPE_HEADING <=> HeadingMarker(call.block)
        /\ (startswith(call.block, <<"#">>) /\ ~HeadingMarker(call.block))
               => result = BLOCK_TYPE_PARAGRAPH

\* the line begins with digits, a '.' and a character of S
NumberPrefix(line, S) ==
    LET d == RunLength(line, 1, Digits)
    IN  d >= 1 /\ d + 2 <= Len(line) /\ line[d + 1] = "." /\ line[d + 2] \in S

\* the number written at the start of the line
PrefixValue(line) == int(SubSeq(line, 1, RunLength(line, 1, Digits)))

\* every line of the block has a number prefix
AllNumberPrefixed(block, S) ==
    LET ls == split(block, <<NL>>)
    IN  \A n \in 1..Len(ls) : NumberPrefix(ls[n], S)

\* the numbers of the lines are 1, 2, 3, ... in order
NumberedFromOne(block) ==
    LET ls == split(block, <<NL>>)
    IN  \A n \in 1..Len(ls) : PrefixValue(ls[n]) = n

QuoteMarker(line) == Len(line) >= 1 /\ line[1] = ">"

\* the line starts with '*' or '-' followed by a character of S
BulletMarker(line, S) ==
    Len(line) >= 2 /\ line[1] \in {"*", "-"} /\ line[2] \in S

\* the lines of the block that carry the quote marker, and the bullet marker
QuoteMarked(block) ==
    LET ls == split(block, <<NL>>)
    IN  {n \in 1..Len(ls) : QuoteMarker(ls[n])}

BulletMarked(block, S) ==
    LET ls == split(block, <<NL>>)
    IN  {n \in 1..Len(ls) : BulletMarker(ls[n], S)}

LineNumbers(block) == 1..Len(split(block, <<NL>>))

\* some lines of the block carry the marker and at least one lacks it
Mixed(marked, block) == marked # {} /\ marked # LineNumbers(block)

BLOCK_TYPES ==
    { BLOCK_TYPE_PARAGRAPH, BLOCK_TYPE_HEADING, BLOCK_TYPE_CODE,
      BLOCK_TYPE_QUOTE, BLOCK_TYPE_UNORD_LIST, BLOCK_TYPE_ORD_LIST }

StrippedLines(t) ==
    LET ls == split(t, <<NL>>)
    IN  [n \in 1..Len(ls) |-> strip(ls[n])]

\* the numbers of the lines that are not blank
NonBlank(t) ==
    LET ls == StrippedLines(t)
    IN  {n \in 1..Len(ls) : ls[n] # <<>>}

\* the lines at which a maximal run of non-blank lines starts
RunStarts(t) == {a \in NonBlank(t) : a - 1 \notin NonBlank(t)}

\* the last line of the run that starts at line a
RunEnd(t, a) == Max({b \in NonBlank(t) : \A n \in a..b : n \in NonBlank(t)})

\* the k-th smallest member of a set of numbers
Kth(S, k) == CHOOSE x \in S : Cardinality({y \in S : y < x}) = k - 1

\* the stripped lines a..b of the text, joined by single newlines
RunText(t, a, b) ==
    LET ls == StrippedLines(t)
    IN  join([n \in 1..(b - a + 1) |-> ls[a + n - 1]], <<NL>>)

NonCodeblocksReturned ==
    call.fn = "get_non_codeblocks" /\ call.at = "returned"

\* C18: get_non_codeblocks returns one block per maximal run of consecutive
\* non-blank lines, in order, each line stripped and the lines joined by
\* single newlines; blank lines give no block, so no block returned is empty
\* or contains a blank line.
C18_BlockPerRun ==
    NonCodeblocksReturned =>
        /\ Len(result) = Cardinality(RunStarts(call.text))
        /\ \A k \in 1..Len(result) :
               LET a == Kth(RunStarts(call.text), k)
               IN  result[k] = RunText(call.text, a, RunEnd(call.text, a))
        /\ \A k \in 1..Len(result) :
               /\ result[k] # <<>>
               /\ NonBlank(result[k]) = 1..Len(split(result[k], <<NL>>))

\* two runs, one of them of two lines, with blank lines around them
C18_Witness ==
    /\ NonCodeblocksReturned
    /\ Len(result) = 2
    /\ \E k \in 1..2 : Len(split(result[k], <<NL>>)) = 2
    /\ Len(split(call.text, <<NL>>)) > 3
    /\ \E n \in 1..Len(call.text) : call.text[n] = "\t"

\* C19: constructing a ParentNode fails with ValueError whenever the tag is
\* empty or absent or the children are empty or absent, and only then: a
\* ParentNode that was constructed has a non-empty tag and at least one child.
C19_ParentNeedsTagAndChildren ==
    call.fn = "ParentNode" =>
        /\ (call.at # "entry" /\ (\/ call.tag \in {NoTag, ""}
                                  \/ call.children \in {NoChildren, <<>>}))
               => call.at = "raised" /\ raised = "ValueError"
        /\ call.at = "returned" =>
               /\ result.class = "ParentNode"
               /\ result.tag \notin {NoTag, ""}
               /\ result.children # NoChildren
               /\ Len(result.children) >= 1
               /\ result.children = call.children

\* a construction refused for its children alone
C19_Witness ==
    /\ call.fn = "ParentNode"
    /\ call.at = "raised"
    /\ call.tag = "p"
    /\ call.children \in {NoChildren, <<>>}

\* one attribute written as key="value"
Attr(p) == <<p[1], "=", QUOTE>> \o p[2] \o <<QUOTE>>

\* the attributes in insertion order, separated by single spaces
Attrs(props) == join([n \in 1..Len(props) |-> Attr(props[n])], <<" ">>)

OpenTag(tag, props) ==
    IF props = <<>> THEN <<"<", tag, ">">>
    ELSE <<"<", tag, " ">> \o Attrs(props) \o <<">">>

CloseTag(tag) == <<"<", "/", tag, ">">>

RECURSIVE Render(_)
RECURSIVE RenderAll(_)
\* the renders of the nodes of a list, concatenated in order
RenderAll(list) ==
    IF list = <<>> THEN <<>> ELSE Render(Head(list)) \o RenderAll(Tail(list))

\* the reference renderer
Render(node) ==
    IF node.class = "LeafNode"
    THEN IF node.tag \in {NoTag, ""} THEN node.value
         ELSE IF node.props # <<>> /\ node.tag = "img"
         THEN <<"<", "img", " ">> \o Attrs(node.props) \o node.value \o <<" ", "/", ">">>
         ELSE OpenTag(node.tag, node.props) \o node.value \o CloseTag(node.tag)
    ELSE OpenTag(node.tag, node.props) \o RenderAll(node.children) \o CloseTag(node.tag)

\* C20: to_html returns what the reference renderer gives, for every tree:
\* the raw value for a Leaf without tag, <tag>value</tag> for a tagged Leaf
\* without attributes, <img attrs value /> for an img Leaf with attributes,
\* <tag attrs>value</tag> for any other Leaf with attributes, and for a Parent
\* <tag> or <tag attrs>, the renders of its children in order, and </tag>;
\* attrs being key="value" in insertion order separated by single spaces.
C20_ToHtmlIsRender ==
    (call.fn = "to_html" /\ call.at # "entry") =>
        /\ call.at = "returned"
        /\ result = Render(call.node)

\* a parent with two attributes whose child is a parent of an img leaf
C20_Witness ==
    /\ call.fn = "to_html"
    /\ call.at = "returned"
    /\ call.node.class = "ParentNode"
    /\ Len(call.node.props) = 2
    /\ \E c \in 1..Len(call.node.children) :
          /\ call.node.children[c].class = "ParentNode"
          /\ call.node.children[c].props # <<>>
          /\ call.node.children[c].children[1].tag = "img"
          /\ call.node.children[c].children[1].value # <<>>

(***************************************************************************)
(* Properties of the whole conversion, continued.                          *)
(***************************************************************************)
\* the document holds nothing but whitespace and newlines (or nothing at all)
BlankDocument == \A n \in 1..Len(doc) : doc[n] \in Whitespace

\* C21: markdown_to_html_node raises an error and returns no tree when the
\* document is empty, and likewise when it holds only whitespace and blank
\* lines (zero blocks); a div without children is never returned.
C21_BlankDocumentFails ==
    [][ /\ BlankDocument =>
             /\ pc' # "returned"
             /\ result' = NoResult
             /\ pc' = "raised" => raised' = "ValueError"
             /\ pc = "loop" => pc' = "raised"
             /\ (pc = "start" /\ doc = <<>>) => pc' = "raised"
        /\ pc' = "returned" =>
             /\ result'.tag = "div"
             /\ result'.children # <<>> ]_vars

\* a document of blank lines, not empty, refused at the root node
C21_Witness ==
    /\ pc = "raised"
    /\ raised = "ValueError"
    /\ BlankDocument
    /\ Len(doc) >= 2
    /\ markdown_blocks = <<>>
    /\ ix = 0

(***************************************************************************)
(* Properties of the page generator.                                       *)
(***************************************************************************)
\* the line is a single '#', then a character of S, then at least one character
TitleLine(line, S) == Len(line) >= 3 /\ line[1] = "#" /\ line[2] \in S

\* what follows the '#' and the run of S after it; the last character of the
\* run when nothing follows it
Captured(line, S) ==
    IF 1 + RunLength(line, 2, S) < Len(line)
    THEN SubSeq(line, 2 + RunLength(line, 2, S), Len(line))
    ELSE <<line[Len(line)]>>

\* the numbers of the lines of the text that are title lines
TitleLinesOf(t, S) ==
    LET ls == split(t, <<NL>>)
    IN  {n \in 1..Len(ls) : TitleLine(ls[n], S)}

\* the outcome of extract_title is the title of the first title line, or
\* ValueError when there is none
FirstTitleWins(S) ==
    (call.fn = "extract_title" /\ call.at # "entry") =>
        IF TitleLinesOf(call.text, S) = {}
        THEN call.at = "raised" /\ raised = "ValueError"
        ELSE /\ call.at = "returned"
             /\ result = Captured(split(call.text, <<NL>>)[Min(TitleLinesOf(call.text, S))], S)

\* C22: extract_title returns the text captured from the first line of the
\* source that is a single '#', whitespace and then at least one character
\* (later such lines and h2-h6 lines are ignored), and raises ValueError
\* when the source has no such line.
C22_FirstTitleWins == FirstTitleWins(Whitespace)

RECURSIVE SinglePass(_, _, _, _)
\* the template from position i on with each placeholder replaced in one pass
\* from left to right: what is inserted is not looked at again
SinglePass(templ, i, title, body) ==
    IF i > Len(templ) THEN <<>>
    ELSE IF startswith(SubSeq(templ, i, Len(templ)), TITLE_PLACEHOLDER)
    THEN title \o SinglePass(templ, i + Len(TITLE_PLACEHOLDER), title, body)
    ELSE IF startswith(SubSeq(templ, i, Len(templ)), CONTENT_PLACEHOLDER)
    THEN body \o SinglePass(templ, i + Len(CONTENT_PLACEHOLDER), title, body)
    ELSE <<templ[i]>> \o SinglePass(templ, i + 1, title, body)

\* C23: the page written by generate_page is the template with every
\* '{{ Title }}' replaced by the extracted title and every '{{ Content }}' by
\* the rendered body, in a single literal pass: placeholder text inside the
\* inserted title or body is not itself substituted.
C23_SinglePassSubstitution ==
    (call.fn = "generate_page" /\ call.at = "returned") =>
        disk.dest = SinglePass(disk.templ, 1, extract_title(disk.src).list,
                               html_of(markdown_to_html_node(disk.src)).list)

\* the source and the template are on disk, and the conversion of the source
\* or the extraction of its title fails
PageFails ==
    /\ disk.src # NoFile
    /\ disk.templ # NoFile
    /\ \/ html_of(markdown_to_html_node(disk.src)).err # "none"
       \/ extract_title(disk.src).err # "none"

\* C24: when converting the markdown or extracting the title fails for a
\* page, generate_page propagates the error and no step of it creates the
\* destination directory or creates or modifies the destination file.
C24_NoPartialPage ==
    [][ (call.fn = "generate_page" /\ PageFails) =>
            /\ disk' = disk
            /\ call'.at # "returned"
            /\ call'.at = "raised" => raised' = "ValueError"
            /\ (call.at = "convert" /\ html_of(markdown_to_html_node(disk.src)).err # "none")
                   => call'.at = "raised"
            /\ call.at = "title" => call'.at = "raised" ]_vars

\* the title is missing from a source that converts, and nothing was written
C24_Witness ==
    /\ call.fn = "generate_page"
    /\ call.at = "raised"
    /\ call.html_content # None
    /\ extract_title(disk.src).err # "none"
    /\ ~disk.dest_dir
    /\ disk.dest = NoFile

(***************************************************************************)
(* Properties of the delimiter-pair split, continued.                      *)
(***************************************************************************)
RECURSIVE ScanBuffer(_, _, _, _, _)
\* what extract_parts holds in current_part when its scan of s ends, the
\* scan being about to read character i (nothing when the scan raises)
ScanBuffer(s, d, i, current_part, delim_found) ==
    IF i > Len(s) THEN current_part
    ELSE IF ~endswith(Append(current_part, s[i]), d)
    THEN ScanBuffer(s, d, i + 1, Append(current_part, s[i]), delim_found)
    ELSE IF ~delim_found THEN ScanBuffer(s, d, i + 1, d, TRUE)
    ELSE IF slice(Append(current_part, s[i]), Len(d), Len(d)) = <<>>
    THEN ScanBuffer(s, d, i + 1, Append(current_part, s[i]), TRUE)
    ELSE IF count(Append(current_part, s[i]), d) % 2 # 0 THEN <<>>
    ELSE ScanBuffer(s, d, i + 1, <<>>, FALSE)

Leftover == ScanBuffer(call.old_nodes[1].text, call.delimiter, 1, <<>>, FALSE)

\* C25: in the delimiter-pair split, the text left in the scan buffer at the
\* end of the input is emitted as a final Plain span holding exactly that
\* text: no character of it is dropped, and it is never a typed span.
C25_LeftoverIsPlain ==
    (/\ call.fn = "split_nodes_delimiter"
     /\ call.at = "returned"
     /\ contains(call.old_nodes[1].text, call.delimiter)
     /\ Leftover # <<>>)
       => /\ result # <<>>
          /\ result[Len(result)] = TextNode(Leftover, TEXT_TYPE_TEXT, None)

(***************************************************************************)
(* Properties of the fenced code regions.                                  *)
(***************************************************************************)
\* the 0-based index of the first character of line n
LineOffset(lines, n) ==
    IF n = 1 THEN 0 ELSE Len(join(SubSeq(lines, 1, n - 1), <<NL>>)) + 1

\* the lines after line n that are exactly three backquotes
ClosingLines(lines, n) == {m \in (n + 1)..Len(lines) : lines[m] = FENCE}

RECURSIVE FencedRegions(_, _)
\* the regions read line by line from line n on: a line beginning with three
\* backquotes opens a region, which ends with the next line that is exactly
\* three backquotes; the reading resumes after that line
FencedRegions(lines, n) ==
    IF n > Len(lines) THEN <<>>
    ELSE IF IsFenceLine(lines[n]) /\ ClosingLines(lines, n) # {}
    THEN <<<<LineOffset(lines, n),
             LineOffset(lines, Min(ClosingLines(lines, n))) + Len(FENCE)>>>>
         \o FencedRegions(lines, Min(ClosingLines(lines, n)) + 1)
    ELSE FencedRegions(lines, n + 1)

\* C26: a fenced code region opened by a line beginning with three backquotes
\* extends to, and ends with, the next line that is exactly three backquotes;
\* regions are matched first-close-wins and never overlap, and an opening
\* fence without a closing fence gives no region.
C26_RegionEndsAtExactFence ==
    (call.fn = "get_codeblock_indices" /\ call.at = "returned") =>
        /\ result = FencedRegions(split(call.text, <<NL>>), 1)
        /\ \A k \in 1..(Len(result) - 1) : result[k][2] <= result[k + 1][1]

\* the spans expected of P d A d d B d d C d S
ChainSpans(P, A, B, C, S, kind) ==
    << TextNode(P, TEXT_TYPE_TEXT, None), TextNode(A, kind, None),
       TextNode(B, kind, None), TextNode(C, kind, None),
       TextNode(S, TEXT_TYPE_TEXT, None) >>

\* the text of the call can be read as P d A d d B d d C d S
IsChain(P, A, B, C, S) ==
    call.old_nodes[1].text = Chain(P, A, B, C, S, call.delimiter)

\* C27: in split_nodes_delimiter two delimited regions that are directly
\* adjacent (a closing delimiter immediately followed by an opening one), as
\* in P d A d d B d d C d S with non-empty d-free P, A, B, C, S, are emitted
\* as [Plain P, kind A, kind B, kind C, Plain S]: no empty span between them,
\* no error.
C27_AdjacentRegions ==
    (/\ call.fn = "split_nodes_delimiter"
     /\ call.at # "entry"
     /\ Len(call.old_nodes[1].text) >= 5 + 6 * Len(call.delimiter))
       => \A P \in ChainPieces(call.delimiter), A \in ChainPieces(call.delimiter),
             B \in ChainPieces(call.delimiter), C \in ChainPieces(call.delimiter),
             S \in ChainPieces(call.delimiter) :
             IsChain(P, A, B, C, S)
                => /\ call.at = "returned"
                   /\ result = ChainSpans(P, A, B, C, S, call.text_type)

\* the pieces that hold no character of d
ClearPieces(d) ==
    {x \in ChainPieces(d) : \A i \in 1..Len(x), j \in 1..Len(d) : x[i] # d[j]}

\* C27 amended: the same for P, A, B, C, S that hold no character of d (for a
\* delimiter of two characters, being free of d is not enough).
C27_AdjacentRegionsClear ==
    (/\ call.fn = "split_nodes_delimiter"
     /\ call.at # "entry"
     /\ Len(call.old_nodes[1].text) >= 5 + 6 * Len(call.delimiter))
       => \A P \in ClearPieces(call.delimiter), A \in ClearPieces(call.delimiter),
             B \in ClearPieces(call.delimiter), C \in ClearPieces(call.delimiter),
             S \in ClearPieces(call.delimiter) :
             IsChain(P, A, B, C, S)
                => /\ call.at = "returned"
                   /\ result = ChainSpans(P, A, B, C, S, call.text_type)

\* the five spans of a text whose adjacent regions are written with "**"
C27_Witness ==
    /\ call.fn = "split_nodes_delimiter"
    /\ call.at = "returned"
    /\ call.delimiter = <<"*", "*">>
    /\ \E P \in ClearPieces(call.delimiter), A \in ClearPieces(call.delimiter),
          B \in ClearPieces(call.delimiter), C \in ClearPieces(call.delimiter),
          S \in ClearPieces(call.delimiter) :
          /\ IsChain(P, A, B, C, S)
          /\ result = ChainSpans(P, A, B, C, S, call.text_type)
          /\ Len(B) = 2

\* d d X d d stands at s[i..j+1] for a single character d: two d, a non-empty
\* X free of d, two d
DoubledAt(s, d, i, j) ==
    /\ j >= i + 3
    /\ j + 1 <= Len(s)
    /\ s[i] = d /\ s[i + 1] = d /\ s[j] = d /\ s[j + 1] = d
    /\ \A k \in (i + 2)..(j - 1) : s[k] # d

\* C28: split_nodes_delimiter with a single-character d fails with
\* NotImplementedError, and with neither ValueError nor a list of spans, when
\* the text holds a region d d X d d (X non-empty and free of d), although the
\* number of delimiters in the text is even.
C28_DoubledIsNotImplemented ==
    (/\ call.fn = "split_nodes_delimiter"
     /\ call.at # "entry"
     /\ Len(call.delimiter) = 1
     /\ count(call.old_nodes[1].text, call.delimiter) % 2 = 0
     /\ \E i, j \in 1..Len(call.old_nodes[1].text) :
           DoubledAt(call.old_nodes[1].text, call.delimiter[1], i, j))
       => /\ call.at = "raised"
          /\ raised = "NotImplementedError"

\* C28 amended: the same when the region d d X d d begins at the first d of the
\* text; a doubled delimiter met while a region is open closes that region and
\* opens the next one, with no error.
C28_LeadingDoubledIsNotImplemented ==
    (/\ call.fn = "split_nodes_delimiter"
     /\ call.at # "entry"
     /\ Len(call.delimiter) = 1
     /\ count(call.old_nodes[1].text, call.delimiter) % 2 = 0
     /\ \E i, j \in 1..Len(call.old_nodes[1].text) :
           /\ DoubledAt(call.old_nodes[1].text, call.delimiter[1], i, j)
           /\ \A k \in 1..(i - 1) : call.old_nodes[1].text[k] # call.delimiter[1])
       => /\ call.at = "raised"
          /\ raised = "NotImplementedError"

\* "**a**" split on "*" has failed with NotImplementedError
C28_Witness ==
    /\ call.fn = "split_nodes_delimiter"
    /\ call.delimiter = <<"*">>
    /\ call.old_nodes[1].text = <<"*", "*", "a", "*", "*">>
    /\ call.at = "raised"
    /\ raised = "NotImplementedError"

(***************************************************************************)
(* Properties of the development server.                                   *)
(***************************************************************************)
\* the current set of tracked files differs from the stored set, or some
\* stored file's timestamp differs from its current timestamp
SnapshotDiffers ==
    \/ DOMAIN disk.mtime # server.tracked_files
    \/ \E f \in server.tracked_files :
          f \notin DOMAIN disk.mtime \/ disk.mtime[f] # server.tracked_filestamps[f]

\* the stored snapshot is the current set of tracked files with their timestamps
SnapshotIsCurrent ==
    /\ server'.tracked_files = DOMAIN disk.mtime
    /\ server'.tracked_filestamps = disk.mtime

SnapshotUnchanged ==
    /\ server'.tracked_files = server.tracked_files
    /\ server'.tracked_filestamps = server.tracked_filestamps

\* C29: every GET /check_update is answered 200 with the body 'update', with
\* the stored snapshot replaced by the current one and exactly one run of the
\* build handler, if and only if the current set of tracked files differs from
\* the stored set or some stored file's timestamp differs from its current
\* one; otherwise it is answered 204, with no build and the snapshot unchanged.
C29_CheckUpdate ==
    [][/\ (server.pc = "check" /\ server'.pc # "check")
            => /\ server'.reload = SnapshotDiffers
               /\ server'.pc = IF SnapshotDiffers THEN "refresh" ELSE "respond"
       /\ (server.pc = "refresh" /\ server'.pc # "refresh")
            => /\ server.reload
               /\ SnapshotIsCurrent
               /\ server'.pc = "build"
       /\ (server.pc \in {"check", "build", "building", "respond"})
            => SnapshotUnchanged
       /\ (server.pc = "respond" /\ server'.pc # "respond")
            => IF server.reload
               THEN /\ server'.response = [status |-> 200, body |-> "update"]
                    /\ server.builds = 1
               ELSE /\ server'.response = [status |-> 204, body |-> ""]
                    /\ server.builds = 0]_vars

\* a poll has been answered 200 after one build
C29_Witness ==
    /\ server.pc = "serving"
    /\ server.response = [status |-> 200, body |-> "update"]
    /\ server.builds = 1
    /\ server.tracked_files # {}

BackToSnapshot ==
    /\ server.pc \notin {"off", "run_build", "refresh", "build"}
    /\ disk.mtime = server.tracked_filestamps

====
